---- MODULE Spec2Model ----
(***************************************************************************)
(* Release aggregation and range selection of breakingchanges              *)
(* (src/src/lib/github.ts).                                                *)
(*                                                                         *)
(* SpecRange applies getReleasesBetweenVersions to every bounded input;    *)
(* SpecProcess, SpecDetect, SpecParse and SpecChangelog do so for          *)
(* processReleases, detectBreakingChange, parseGitHubUrl and               *)
(* generateChangelogText.                                                  *)
(* Spec runs one aggregation, fetchAllReleases with its fallback           *)
(* fetchAllTags, against an upstream that answers each request in every    *)
(* way the code distinguishes; each await is a step boundary.  SpecLong    *)
(* runs fetchAllTags on listings longer than its conversion limit.         *)
(*                                                                         *)
(* Strings are TLA+ strings; Len, \o and SubSeq act on them character by   *)
(* character.  A published_at value is the instant (milliseconds since the *)
(* epoch) that `new Date(published_at).getTime()` yields for it; the       *)
(* upstream sends ISO-8601 instants, for which that value is defined.      *)
(* The fields id and html_url of a release are carried through the code    *)
(* unread and are left out of the records.                                 *)
(***************************************************************************)
EXTENDS Integers, Sequences, FiniteSets, TLC

VARIABLES
    \* getReleasesBetweenVersions: its three arguments and its return value
    rsReleases, rsCurrent, rsTarget, rsResult, rsPc,
    \* fetchAllReleases / fetchAllTags: locals, position and outcome.  converted
    \* holds, per tag handed to Promise.all, <<>> while its conversion is pending
    \* and <<release>> once it resolved; result is <<>> until the aggregation
    \* returns <<ProcessedReleasesResult>>; error is the message thrown.
    \* commitLog holds, per tag, <<>> or <<whether its commit-detail fetch ended
    \* ok, and what new Date() gave if it was called>>.
    repoRef, pc, page, hasMore, allReleases, tagPage, tagHasMore, allTags,
    converted, commitLog, now, result, error, requests, responses,
    \* a call of one of the synchronous exports (processReleases,
    \* detectBreakingChange, parseGitHubUrl, generateChangelogText): its
    \* argument, and <<>> until it returned <<value>>
    libArg, libReturn,
    \* VersionSelector: its releases and isLoading props, its two state values
    \* (NoValue for null), and the arguments of its last onSelect call
    vsReleases, vsLoading, vsCurrent, vsTarget, vsSubmitted,
    \* Home (page.tsx): its state values, the parsedRepo state of the RepoInput
    \* it renders, the repositories submitted so far, and the calls of
    \* handleRepoSubmit that wait at one of their awaits
    pgRepoInfo, pgReleases, pgHasNotes, pgSelected, pgLoading, pgError, pgExpanded,
    pgParsedRepo, pgSubmitted, pgFlights,
    \* pollRunCompletion: its position, its local attempts, the number of
    \* runs.retrieve calls it made, the run it last retrieved (<<>> before the
    \* first), and the message of the error it threw
    pollPc, attempts, retrievals, runStatus, pollError,
    \* GET /api/releases: the owner and repo search parameters (<<>> for null),
    \* the handler's position, the number of fetchAllReleases calls it made,
    \* <<the upstream response that made the call throw, the message thrown>>,
    \* and <<the response it answered>>
    relQuery, relPc, relCalls, relThrown, relResponse,
    \* POST /api/analyze: the parsed request body, whether OPENAI_API_KEY is
    \* set, the handler's position, the number of requests sent to the OpenAI
    \* service, and <<the response it answered>>
    anzBody, anzKey, anzPc, anzLlmCalls, anzResponse

rangeVars == <<rsReleases, rsCurrent, rsTarget, rsResult, rsPc>>
aggVars == <<repoRef, pc, page, hasMore, allReleases, tagPage, tagHasMore, allTags,
             converted, commitLog, now, result, error, requests, responses>>
libVars == <<libArg, libReturn>>
selVars == <<vsReleases, vsLoading, vsCurrent, vsTarget, vsSubmitted>>
pageVars == <<pgRepoInfo, pgReleases, pgHasNotes, pgSelected, pgLoading, pgError, pgExpanded,
              pgParsedRepo, pgSubmitted, pgFlights>>
pollVars == <<pollPc, attempts, retrievals, runStatus, pollError>>
relVars == <<relQuery, relPc, relCalls, relThrown, relResponse>>
anzVars == <<anzBody, anzKey, anzPc, anzLlmCalls, anzResponse>>
svcVars == <<pollVars, relVars, anzVars>>
uiVars == <<selVars, pageVars, svcVars>>
vars == <<rangeVars, aggVars, libVars, uiVars>>

----------------------------------------------------------------------------
(* Bounds of the model *)

\* most repositories submitted on the page
MaxSubmits == 3
\* most releases the version selector is given
MaxVersions == 4
\* longest release list handed to getReleasesBetweenVersions
MaxLen == 3
\* most pages one listing serves
MaxPages == 2
\* most items the upstream puts on one page
MaxPageItems == 2
\* most releases the releases listing serves over all its pages
MaxItems == 3
\* most tags the tags listing serves over all its pages
MaxTags == 2
\* most milliseconds that pass while the commit details are fetched
MaxTicks == 1
\* most tags a long tags listing serves over all its pages
MaxListed == 102

(* Program constants *)
perPage == 100
TagLimit == 50

NoValue == "<none>"

----------------------------------------------------------------------------
(* String helpers: the String.prototype methods the code calls *)

UpperChars == "ABCDEFGHIJKLMNOPQRSTUVWXYZ"
LowerChars == "abcdefghijklmnopqrstuvwxyz"

CharAt(s, i) == SubSeq(s, i, i)

LowerTable ==
    [c \in {CharAt(UpperChars, i) : i \in 1..Len(UpperChars)} |->
        CharAt(LowerChars, CHOOSE i \in 1..Len(UpperChars) : CharAt(UpperChars, i) = c)]

ToLowerChar(c) == IF c \in DOMAIN LowerTable THEN LowerTable[c] ELSE c

RECURSIVE ToLower(_)
ToLower(s) ==
    IF Len(s) = 0 THEN ""
    ELSE ToLowerChar(CharAt(s, 1)) \o ToLower(SubSeq(s, 2, Len(s)))

\* s.includes(p)
Includes(s, p) ==
    \E i \in 1..(Len(s) - Len(p) + 1) : SubSeq(s, i, i + Len(p) - 1) = p

StartsWith(s, p) == Len(s) >= Len(p) /\ SubSeq(s, 1, Len(p)) = p
EndsWith(s, p) == Len(s) >= Len(p) /\ SubSeq(s, Len(s) - Len(p) + 1, Len(s)) = p

IsSpace(c) == c \in {" ", "\n", "\t", "\r"}

RECURSIVE TrimStart(_)
TrimStart(s) ==
    IF Len(s) > 0 /\ IsSpace(CharAt(s, 1)) THEN TrimStart(SubSeq(s, 2, Len(s))) ELSE s

RECURSIVE TrimEnd(_)
TrimEnd(s) ==
    IF Len(s) > 0 /\ IsSpace(CharAt(s, Len(s))) THEN TrimEnd(SubSeq(s, 1, Len(s) - 1)) ELSE s

Trim(s) == TrimEnd(TrimStart(s))

\* s.indexOf(p), counted from 1; 0 when p does not occur
IndexOf(s, p) ==
    IF Includes(s, p)
    THEN CHOOSE i \in 1..(Len(s) - Len(p) + 1) :
            /\ SubSeq(s, i, i + Len(p) - 1) = p
            /\ \A j \in 1..(i - 1) : SubSeq(s, j, j + Len(p) - 1) # p
    ELSE 0

\* s.split('/')
RECURSIVE SplitOnSlash(_)
SplitOnSlash(s) ==
    LET i == IndexOf(s, "/")
    IN  IF i = 0 THEN <<s>>
        ELSE <<SubSeq(s, 1, i - 1)>> \o SplitOnSlash(SubSeq(s, i + 1, Len(s)))

\* segments.filter(Boolean)
NonEmpty(segments) == SelectSeq(segments, LAMBDA x : x # "")

\* s.replace(/\.git$/, '')
StripDotGit(s) == IF EndsWith(s, ".git") THEN SubSeq(s, 1, Len(s) - 4) ELSE s

\* s.replace(/\/+$/, '')
RECURSIVE StripSlashes(_)
StripSlashes(s) ==
    IF EndsWith(s, "/") THEN StripSlashes(SubSeq(s, 1, Len(s) - 1)) ELSE s

\* the first position from `from` on that holds one of `stops`, else Len(s) + 1
EndOfPart(s, from, stops) ==
    IF \E i \in from..Len(s) : CharAt(s, i) \in stops
    THEN CHOOSE i \in from..Len(s) :
            /\ CharAt(s, i) \in stops
            /\ \A j \in from..(i - 1) : CharAt(s, j) \notin stops
    ELSE Len(s) + 1

\* new URL(s) for the inputs of this model: an http or https scheme followed by
\* "//", a host up to the first "/", "?" or "#", and a path without dot
\* segments or characters that are percent-encoded; everything else they hold
\* has no scheme and makes the constructor throw.  hostname is lower-cased and
\* an empty path is "/".
NewURL(s) ==
    LET k == IndexOf(s, "://")
        hostEnd == EndOfPart(s, k + 3, {"/", "?", "#"})
        pathEnd == EndOfPart(s, hostEnd, {"?", "#"})
    IN  IF k = 0 \/ ToLower(SubSeq(s, 1, k - 1)) \notin {"http", "https"} \/ hostEnd = k + 3
        THEN [ok |-> FALSE, hostname |-> "", pathname |-> ""]
        ELSE [ok |-> TRUE,
              hostname |-> ToLower(SubSeq(s, k + 3, hostEnd - 1)),
              pathname |-> IF pathEnd = hostEnd THEN "/" ELSE SubSeq(s, hostEnd, pathEnd - 1)]

----------------------------------------------------------------------------
(* Pure functions of github.ts *)

\* the try block of parseGitHubUrl: threw when new URL threw, else the value it
\* returns, <<>> for null
TryParseGitHubUrl(url) ==
    LET parsedUrl == NewURL(Trim(url))
        cleanPath == NonEmpty(SplitOnSlash(StripSlashes(StripDotGit(parsedUrl.pathname))))
    IN  IF ~parsedUrl.ok THEN [threw |-> TRUE, value |-> <<>>]
        ELSE IF parsedUrl.hostname # "github.com" THEN [threw |-> FALSE, value |-> <<>>]
        ELSE IF Len(cleanPath) < 2 THEN [threw |-> FALSE, value |-> <<>>]
        ELSE [threw |-> FALSE, value |-> <<[owner |-> cleanPath[1], repo |-> cleanPath[2]]>>]

\* parseGitHubUrl with a defect: no catch
parseGitHubUrl_NoCatch(url) == TryParseGitHubUrl(url)

parseGitHubUrl(url) ==
    LET tried == TryParseGitHubUrl(url)
    IN  IF tried.threw THEN [threw |-> FALSE, value |-> <<>>] ELSE tried

getGitHubReleasesUrl(owner, repo, pp, pg) ==
    "https://api.github.com/repos/" \o owner \o "/" \o repo
        \o "/releases?per_page=" \o ToString(pp) \o "&page=" \o ToString(pg)

getGitHubTagsUrl(owner, repo, pp, pg) ==
    "https://api.github.com/repos/" \o owner \o "/" \o repo
        \o "/tags?per_page=" \o ToString(pp) \o "&page=" \o ToString(pg)

\* linkHeader is NoValue when the response has no Link header (null)
hasNextPage(linkHeader) ==
    IF linkHeader = NoValue \/ linkHeader = "" THEN FALSE
    ELSE Includes(linkHeader, "rel=\"next\"")

\* detectBreakingChange with a defect: every pattern without the i flag
detectBreakingChange_CaseSensitive(body) ==
    IF body = "" THEN FALSE
    ELSE \/ Includes(body, "breaking change")
         \/ Includes(body, "**breaking**")
         \/ Includes(body, "BREAKING CHANGE")
         \/ Includes(body, "incompatible")
         \/ Includes(body, "not backward compatible")
         \/ Includes(body, "dropped support")
         \/ Includes(body, "deprecated")
         \/ Includes(body, "deprecation")

\* body is "" for a null or undefined body as well: !body holds of all three
detectBreakingChange(body) ==
    IF body = "" THEN FALSE
    ELSE LET folded == ToLower(body)   \* what a pattern with the i flag sees
         IN  \/ Includes(folded, "breaking change")          \* /breaking changes?/i
             \/ Includes(folded, "**breaking**")             \* /\*\*breaking\*\*/i
             \/ Includes(body, "BREAKING CHANGE")            \* /BREAKING CHANGE/
             \/ Includes(folded, "incompatible")             \* /incompatible/i
             \/ Includes(folded, "not backward compatible")  \* /not backward compatible/i
             \/ Includes(folded, "dropped support")          \* /dropped support/i
             \/ Includes(folded, "deprecated")               \* /deprecat(ed|ion)/i
             \/ Includes(folded, "deprecation")

\* HasMeaningfulBody with a defect: the placeholder not skipped
HasMeaningfulBody_PlaceholderCounts(release) ==
    IF release.body = "" \/ Trim(release.body) = "" THEN FALSE
    ELSE IF Len(Trim(release.body)) < 20 THEN FALSE
    ELSE TRUE

\* the callback of releases.some(...) in processReleases
HasMeaningfulBody(release) ==
    IF release.body = "" \/ Trim(release.body) = "" THEN FALSE
    ELSE IF StartsWith(release.body, "This is a tag (")
            /\ EndsWith(release.body, "without release notes.") THEN FALSE
    ELSE IF Len(Trim(release.body)) < 20 THEN FALSE
    ELSE TRUE

\* processReleases with a defect: the upstream breaking_change is kept
processReleases_TrustUpstream(releases, usingTags) ==
    [releases |-> releases,
     hasReleaseNotes |-> \E i \in 1..Len(releases) : HasMeaningfulBody(releases[i]),
     usingTags |-> usingTags]

processReleases(releases, usingTags) ==
    [releases |-> [i \in 1..Len(releases) |->
                     [releases[i] EXCEPT !.breaking_change = detectBreakingChange(releases[i].body)]],
     hasReleaseNotes |-> \E i \in 1..Len(releases) : HasMeaningfulBody(releases[i]),
     usingTags |-> usingTags]

\* new Date(r.published_at).getTime()
GetTime(r) == r.published_at

\* where Array.prototype.sort (stable) puts r in a list already sorted with the
\* comparator (a, b) => GetTime(b) - GetTime(a): behind every element not older
RECURSIVE InsertByDate(_, _)
InsertByDate(sorted, r) ==
    IF sorted = <<>> THEN <<r>>
    ELSE IF GetTime(Head(sorted)) - GetTime(r) >= 0
         THEN <<Head(sorted)>> \o InsertByDate(Tail(sorted), r)
         ELSE <<r>> \o sorted

\* the sort with a defect: the list taken as the caller ordered it
SortNewestFirst_AsGiven(s) == s

RECURSIVE SortNewestFirst(_)
SortNewestFirst(s) ==
    IF s = <<>> THEN <<>>
    ELSE InsertByDate(SortNewestFirst(SubSeq(s, 1, Len(s) - 1)), s[Len(s)])

\* FindIndex with a defect: the last match, as findLastIndex gives
FindIndex_Last(s, tag) ==
    IF \E i \in 1..Len(s) : s[i].tag_name = tag
    THEN (CHOOSE i \in 1..Len(s) :
             /\ s[i].tag_name = tag
             /\ \A j \in (i + 1)..Len(s) : s[j].tag_name # tag) - 1
    ELSE -1

\* Array.prototype.findIndex on tag_name, 0-based, -1 when no element matches
FindIndex(s, tag) ==
    IF \E i \in 1..Len(s) : s[i].tag_name = tag
    THEN (CHOOSE i \in 1..Len(s) :
            /\ s[i].tag_name = tag
            /\ \A j \in 1..(i - 1) : s[j].tag_name # tag) - 1
    ELSE -1

\* Array.prototype.slice(from, to): 0-based, to excluded, a negative index
\* counting from the end, both clamped to the array
Slice(s, from, to) ==
    LET n == Len(s)
        f == IF from < 0 THEN (IF n + from < 0 THEN 0 ELSE n + from)
             ELSE (IF from > n THEN n ELSE from)
        t == IF to < 0 THEN (IF n + to < 0 THEN 0 ELSE n + to)
             ELSE (IF to > n THEN n ELSE to)
    IN  SubSeq(s, f + 1, t)

\* getReleasesBetweenVersions with a defect: the pair taken in call order
\* (NoSwap), the absent-tag guard asking for both tags to be absent (BothAbsent)
getReleasesBetweenVersions_NoSwap(releases, currentVersion, targetVersion) ==
    LET sortedReleases == SortNewestFirst(releases)
        currentIdx == FindIndex(sortedReleases, currentVersion)
        targetIdx == FindIndex(sortedReleases, targetVersion)
    IN  IF currentIdx = -1 \/ targetIdx = -1 THEN <<>>
        ELSE Slice(sortedReleases, currentIdx, targetIdx + 1)

getReleasesBetweenVersions_BothAbsent(releases, currentVersion, targetVersion) ==
    LET sortedReleases == SortNewestFirst(releases)
        currentIdx == FindIndex(sortedReleases, currentVersion)
        targetIdx == FindIndex(sortedReleases, targetVersion)
        startIdx == IF currentIdx > targetIdx THEN targetIdx ELSE currentIdx
        endIdx == IF currentIdx > targetIdx THEN currentIdx ELSE targetIdx
    IN  IF currentIdx = -1 /\ targetIdx = -1 THEN <<>>
        ELSE Slice(sortedReleases, startIdx, endIdx + 1)

getReleasesBetweenVersions(releases, currentVersion, targetVersion) ==
    LET sortedReleases == SortNewestFirst(releases)
        currentIdx == FindIndex(sortedReleases, currentVersion)
        targetIdx == FindIndex(sortedReleases, targetVersion)
        startIdx == IF currentIdx > targetIdx THEN targetIdx ELSE currentIdx
        endIdx == IF currentIdx > targetIdx THEN currentIdx ELSE targetIdx
    IN  IF currentIdx = -1 \/ targetIdx = -1 THEN <<>>
        ELSE Slice(sortedReleases, startIdx, endIdx + 1)

\* strings.join(separator)
RECURSIVE Join(_, _)
Join(strings, separator) ==
    IF strings = <<>> THEN ""
    ELSE IF Len(strings) = 1 THEN strings[1]
    ELSE strings[1] \o separator \o Join(Tail(strings), separator)

\* the callback of releases.map(...) in generateChangelogText; a null name or
\* body is falsy like "" and is written ""
ChangelogEntry(release) ==
    LET title == IF release.name # "" THEN release.name ELSE release.tag_name
    IN  "## " \o title \o " (" \o release.tag_name \o ")\n\n"
          \o (IF release.body # "" THEN release.body ELSE "No release notes provided.")
          \o "\n\n"

\* generateChangelogText with a defect: the releases sorted first
generateChangelogText_Sorted(releases) ==
    IF Len(releases) = 0 THEN "No releases selected."
    ELSE LET sorted == SortNewestFirst(releases)
         IN  Join([i \in 1..Len(sorted) |-> ChangelogEntry(sorted[i])], "---\n\n")

\* generateChangelogText with a defect: the rule without the blank line behind it
generateChangelogText_BareRule(releases) ==
    IF Len(releases) = 0 THEN "No releases selected."
    ELSE Join([i \in 1..Len(releases) |-> ChangelogEntry(releases[i])], "---\n")

generateChangelogText(releases) ==
    IF Len(releases) = 0 THEN "No releases selected."
    ELSE Join([i \in 1..Len(releases) |-> ChangelogEntry(releases[i])], "---\n\n")

----------------------------------------------------------------------------
(* The upstream's data *)

Rel(tag, name, t, body, bc) ==
    [name |-> name, tag_name |-> tag, published_at |-> t, body |-> body,
     draft |-> FALSE, prerelease |-> FALSE, breaking_change |-> bc]

\* Release records as the releases endpoint serves them.  Two share a
\* published_at and two share a tag_name (the listing repeats an item when a
\* release is published between two page requests, and drafts may share a tag).
UpstreamReleases ==
    { Rel("v1.0.0", "v1.0.0", 1, "", FALSE),
      Rel("v1.1.0", "", 2, "Fix typo", TRUE),
      Rel("v2.0.0", "Version 2", 3, "Breaking Changes: the config format is new.", FALSE),
      Rel("v1.1.0", "Patch", 3, "Minor fixes and improvements to the docs.", FALSE) }

\* the tags a caller may pass; v9.9.9 is the tag of no release
VersionTags == {"v1.0.0", "v1.1.0", "v2.0.0", "v9.9.9"}

SeqsUpTo(S, n) == UNION { [1..k -> S] : k \in 0..n }

----------------------------------------------------------------------------
(* getReleasesBetweenVersions applied to every list of at most MaxLen       *)
(* releases, in every order, and every pair of tags                         *)

RangeParked ==
    /\ rsReleases = <<>> /\ rsCurrent = NoValue /\ rsTarget = NoValue
    /\ rsResult = <<>> /\ rsPc = "off"

SelParked ==
    /\ vsReleases = <<>> /\ vsLoading = FALSE
    /\ vsCurrent = NoValue /\ vsTarget = NoValue /\ vsSubmitted = <<>>

PageParked ==
    /\ pgRepoInfo = <<>> /\ pgReleases = <<>> /\ pgHasNotes = TRUE /\ pgSelected = <<>>
    /\ pgLoading = FALSE /\ pgError = NoValue /\ pgExpanded = TRUE
    /\ pgParsedRepo = <<>> /\ pgSubmitted = <<>> /\ pgFlights = <<>>

PollParked ==
    /\ pollPc = "off" /\ attempts = 0 /\ retrievals = 0
    /\ runStatus = <<>> /\ pollError = NoValue

RelParked ==
    /\ relQuery = <<>> /\ relPc = "off" /\ relCalls = 0
    /\ relThrown = <<>> /\ relResponse = <<>>

AnzParked ==
    /\ anzBody = <<>> /\ anzKey = FALSE /\ anzPc = "off"
    /\ anzLlmCalls = 0 /\ anzResponse = <<>>

SvcParked == PollParked /\ RelParked /\ AnzParked

UiParked == SelParked /\ PageParked /\ SvcParked

LibParked ==
    /\ libArg = <<>> /\ libReturn = <<>>

AggParked ==
    /\ repoRef = NoValue /\ pc = "off" /\ page = 1 /\ hasMore = TRUE
    /\ allReleases = <<>> /\ tagPage = 1 /\ tagHasMore = TRUE
    /\ allTags = <<>> /\ converted = <<>> /\ commitLog = <<>> /\ now = 0
    /\ result = <<>> /\ error = NoValue
    /\ requests = <<>> /\ responses = <<>>

InitRange ==
    /\ rsReleases \in SeqsUpTo(UpstreamReleases, MaxLen)
    /\ rsCurrent \in VersionTags
    /\ rsTarget \in VersionTags
    /\ rsResult = <<>>
    /\ rsPc = "call"
    /\ AggParked
    /\ LibParked
    /\ UiParked

SelectRange ==
    /\ rsPc = "call"
    /\ rsResult' = getReleasesBetweenVersions(rsReleases, rsCurrent, rsTarget)
    /\ rsPc' = "returned"
    /\ UNCHANGED <<rsReleases, rsCurrent, rsTarget, aggVars, libVars, uiVars>>

NextRange == SelectRange

SpecRange == InitRange /\ [][NextRange]_vars

----------------------------------------------------------------------------
(* Properties of getReleasesBetweenVersions *)

HasTag(s, tag) == \E i \in 1..Len(s) : s[i].tag_name = tag
TagCount(s, tag) == Cardinality({i \in 1..Len(s) : s[i].tag_name = tag})

\* s re-sorted by published_at descending, equal instants keeping their order
\* (stated by the permutation, not by the sorting procedure)
ReSorted(s) ==
    LET n == Len(s)
        p == CHOOSE q \in [1..n -> 1..n] :
                \A i, j \in 1..n : i < j =>
                    \/ s[q[i]].published_at > s[q[j]].published_at
                    \/ /\ s[q[i]].published_at = s[q[j]].published_at
                       /\ q[i] < q[j]
    IN  [i \in 1..n |-> s[p[i]]]

\* C1: for tags A and B that both occur in the list, selectRange(releases, A, B)
\* is the same sequence as selectRange(releases, B, A).
C1_OrderIndependent ==
    (rsPc = "returned" /\ HasTag(rsReleases, rsCurrent) /\ HasTag(rsReleases, rsTarget))
        => rsResult = getReleasesBetweenVersions(rsReleases, rsTarget, rsCurrent)

\* a call whose first tag is the older one, so the indices are swapped, and
\* whose result holds more than one release
C1_Witness ==
    /\ rsPc = "returned"
    /\ rsCurrent # rsTarget
    /\ FindIndex(SortNewestFirst(rsReleases), rsCurrent)
          > FindIndex(SortNewestFirst(rsReleases), rsTarget)
    /\ FindIndex(SortNewestFirst(rsReleases), rsTarget) >= 0
    /\ Len(rsResult) >= 2

C3_AbsentTagEmpty ==
    (rsPc = "returned" /\ (~HasTag(rsReleases, rsCurrent) \/ ~HasTag(rsReleases, rsTarget)))
        => rsResult = <<>>

\* a call on a non-empty list with one tag present and the other absent
C3_Witness ==
    /\ rsPc = "returned"
    /\ Len(rsReleases) >= 2
    /\ HasTag(rsReleases, rsCurrent)
    /\ ~HasTag(rsReleases, rsTarget)
    /\ rsResult = <<>>

----------------------------------------------------------------------------
(* fetchAllReleases and fetchAllTags against a nondeterministic upstream *)

Repos == { [owner |-> "facebook", repo |-> "react"] }

Statuses == {200, 403, 404, 500}
StatusText(status) ==
    CASE status = 200 -> "OK"
      [] status = 403 -> "Forbidden"
      [] status = 404 -> "Not Found"
      [] status = 500 -> "Internal Server Error"

\* Response.ok
Ok(status) == status >= 200 /\ status <= 299

\* values of the x-ratelimit-remaining header (NoValue: header absent)
RemainingValues == {NoValue, "0", "42"}

\* values of the Link header (NoValue: header absent)
LinkNext == "<https://api.github.com/resource?page=2>; rel=\"next\""
LinkPrev == "<https://api.github.com/resource?page=1>; rel=\"prev\""
LinkValues == {NoValue, LinkNext, LinkPrev}

Tag(name, sha) ==
    [name |-> name,
     commit |-> [sha |-> sha, url |-> "https://api.github.com/repos/facebook/react/commits/" \o sha],
     zipball_url |-> "https://api.github.com/repos/facebook/react/zipball/refs/tags/" \o name]

\* Tag records as the tags endpoint serves them
UpstreamTags ==
    { Tag("v1.0.0", "0a1b2c3d"),
      Tag("v2.0.0-beta", "1b2c3d4e"),
      Tag("v0.9-deprecated", "2c3d4e5f") }

\* The body of the commit detail the upstream holds for a commit: the
\* committer and author dates, each <<date>>, or <<>> when the field is missing
CommitData(sha) ==
    CASE sha = "0a1b2c3d" -> [committer |-> <<2>>, author |-> <<1>>]
      [] sha = "1b2c3d4e" -> [committer |-> <<>>, author |-> <<3>>]
      [] sha = "2c3d4e5f" -> [committer |-> <<>>, author |-> <<>>]
      [] OTHER -> [committer |-> <<1>>, author |-> <<1>>]

\* how a commit-detail fetch ends: a body that parses, a response that is
\* not ok, a rejected fetch, a body that response.json() cannot parse
CommitOutcomes == {"ok", "http_error", "network_error", "malformed_body"}

\* the wall clock when the aggregation starts: later than every upstream date
ClockStart ==
    LET dates == {r.published_at : r \in UpstreamReleases}
                 \cup UNION { {d[i] : i \in 1..Len(d)} :
                                d \in UNION { {CommitData(t.commit.sha).committer,
                                               CommitData(t.commit.sha).author} :
                                             t \in UpstreamTags } }
    IN  (CHOOSE d \in dates : \A e \in dates : e <= d) + 1

\* the message of the TypeError with which fetch rejects when the request
\* gets no response
FetchFailed == "fetch failed"

\* a listing request that fails: a response that is not ok, of which no body
\* is read, or no response at all (rejected)
FailureResponses ==
    { [rejected |-> FALSE, status |-> st, statusText |-> StatusText(st), remaining |-> rem,
       link |-> NoValue, items |-> <<>>] :
         st \in {x \in Statuses : ~Ok(x)}, rem \in RemainingValues }
    \cup { [rejected |-> TRUE, status |-> 0, statusText |-> "", remaining |-> NoValue,
            link |-> NoValue, items |-> <<>>] }

\* a successful listing response with its page of items; the upstream serves
\* at most MaxPages pages and, over all pages, at most cap items
OkResponses(Items, pg, have, cap) ==
    { [rejected |-> FALSE, status |-> 200, statusText |-> StatusText(200), remaining |-> "42",
       link |-> l, items |-> it] :
         l \in {x \in LinkValues : x # LinkNext \/ pg < MaxPages},
         it \in SeqsUpTo(Items, IF cap - have < MaxPageItems
                                THEN cap - have ELSE MaxPageItems) }

Request(endpoint, pg, url) == [endpoint |-> endpoint, page |-> pg, url |-> url]
Logged(endpoint, pg, resp) ==
    [endpoint |-> endpoint, page |-> pg, rejected |-> resp.rejected, status |-> resp.status,
     remaining |-> resp.remaining, link |-> resp.link, items |-> resp.items]

\* the error thrown on a response that is not ok, in fetchAllReleases
ReleasesFailure(resp, owner, repo) ==
    IF resp.status = 404 THEN "Repository not found: " \o owner \o "/" \o repo
    ELSE IF resp.status = 403 /\ resp.remaining = "0"
    THEN "GitHub API rate limit exceeded. Please try again later or add a GitHub token."
    ELSE "GitHub API error: " \o ToString(resp.status) \o " " \o resp.statusText

\* TagsFailure with a defect: every 403 taken for the rate limit
TagsFailure_Any403(resp, owner, repo) ==
    IF resp.status = 404 THEN "Repository not found: " \o owner \o "/" \o repo
    ELSE IF resp.status = 403
    THEN "GitHub API rate limit exceeded. Please try again later or add a GitHub token."
    ELSE "GitHub API error: " \o ToString(resp.status) \o " " \o resp.statusText

\* the error thrown on a response that is not ok, in fetchAllTags
TagsFailure(resp, owner, repo) ==
    IF resp.status = 404 THEN "Repository not found: " \o owner \o "/" \o repo
    ELSE IF resp.status = 403 /\ resp.remaining = "0"
    THEN "GitHub API rate limit exceeded. Please try again later or add a GitHub token."
    ELSE "GitHub API error: " \o ToString(resp.status) \o " " \o resp.statusText

\* the loop condition's next value after a page: hasNextPage, overridden by
\* the safety check on an empty page
\* MorePages with a defect: no safety check on an empty page
MorePages_LinkOnly(resp) == hasNextPage(resp.link)

MorePages(resp) == IF Len(resp.items) = 0 THEN FALSE ELSE hasNextPage(resp.link)

InitAgg ==
    /\ repoRef \in Repos
    /\ pc = "releases_fetch"
    /\ page = 1 /\ hasMore = TRUE /\ allReleases = <<>>
    /\ tagPage = 1 /\ tagHasMore = TRUE /\ allTags = <<>>
    /\ converted = <<>>
    /\ commitLog = <<>>
    /\ now = ClockStart
    /\ result = <<>> /\ error = NoValue
    /\ requests = <<>> /\ responses = <<>>
    /\ RangeParked
    /\ LibParked
    /\ UiParked

\* fetchAllReleases, loop body up to the await: fetch(url, { headers })
RequestReleasesPage ==
    /\ pc = "releases_fetch"
    /\ hasMore
    /\ requests' = Append(requests,
          Request("releases", page, getGitHubReleasesUrl(repoRef.owner, repoRef.repo, perPage, page)))
    /\ pc' = "releases_await"
    /\ UNCHANGED <<repoRef, page, hasMore, allReleases, tagPage, tagHasMore, allTags,
                   converted, commitLog, now, result, error, responses, rangeVars, libVars, uiVars>>

\* FallsBackToTags with a defect: never
FallsBackToTags_Never(all) == FALSE

\* whether fetchAllReleases hands over to fetchAllTags once its loop has ended
FallsBackToTags(all) == Len(all) = 0

\* Accumulate with a defect: the page replaces what was accumulated
Accumulate_Overwrite(all, items) == items

\* allReleases = [...allReleases, ...releases]
Accumulate(all, items) == all \o items

\* ReleasesAbort with a defect: a failed request answered with the tag
\* fallback (TryTags), and with the releases accumulated so far (Partial)
ReleasesAbort_TryTags(resp) ==
    [pc |-> "tags_fetch", page |-> page, hasMore |-> FALSE, allReleases |-> allReleases,
     result |-> <<>>, error |-> NoValue]

ReleasesAbort_Partial(resp) ==
    [pc |-> "done", page |-> page, hasMore |-> FALSE, allReleases |-> allReleases,
     result |-> <<processReleases(SortNewestFirst(allReleases), FALSE)>>, error |-> NoValue]

\* fetchAllReleases leaves by an exception: the rejection of fetch, or the
\* error thrown on a response that is not ok
ReleasesAbort(resp) ==
    [pc |-> "failed", page |-> page, hasMore |-> hasMore, allReleases |-> allReleases,
     result |-> <<>>,
     error |-> IF resp.rejected THEN FetchFailed
               ELSE ReleasesFailure(resp, repoRef.owner, repoRef.repo)]

\* what fetchAllReleases does with a response: throw, go round the loop, hand
\* over to fetchAllTags, or sort, process and return
ReleasesStep(resp) ==
    IF resp.rejected \/ ~Ok(resp.status)
    THEN ReleasesAbort(resp)
    ELSE LET all == Accumulate(allReleases, resp.items)
             more == MorePages(resp)
         IN  IF more
             THEN [pc |-> "releases_fetch", page |-> page + 1, hasMore |-> TRUE,
                   allReleases |-> all, result |-> <<>>, error |-> NoValue]
             ELSE IF FallsBackToTags(all)
             THEN [pc |-> "tags_fetch", page |-> page + 1, hasMore |-> FALSE,
                   allReleases |-> all, result |-> <<>>, error |-> NoValue]
             ELSE [pc |-> "done", page |-> page + 1, hasMore |-> FALSE,
                   allReleases |-> SortNewestFirst(all),
                   result |-> <<processReleases(SortNewestFirst(all), FALSE)>>,
                   error |-> NoValue]

\* fetchAllReleases, from the response to the next await or the return
ReceiveReleasesPage ==
    /\ pc = "releases_await"
    /\ \E resp \in FailureResponses \cup OkResponses(UpstreamReleases, page, Len(allReleases), MaxItems) :
          LET n == ReleasesStep(resp)
          IN  /\ responses' = Append(responses, Logged("releases", page, resp))
              /\ pc' = n.pc
              /\ page' = n.page
              /\ hasMore' = n.hasMore
              /\ allReleases' = n.allReleases
              /\ result' = n.result
              /\ error' = n.error
    /\ UNCHANGED <<repoRef, tagPage, tagHasMore, allTags, converted, commitLog, now,
                   requests, rangeVars, libVars, uiVars>>

\* fetchAllTags, loop body up to the await: fetch(url, { headers })
RequestTagsPage ==
    /\ pc = "tags_fetch"
    /\ tagHasMore
    /\ requests' = Append(requests,
          Request("tags", tagPage, getGitHubTagsUrl(repoRef.owner, repoRef.repo, perPage, tagPage)))
    /\ pc' = "tags_await"
    /\ UNCHANGED <<repoRef, page, hasMore, allReleases, tagPage, tagHasMore, allTags,
                   converted, commitLog, now, result, error, responses, rangeVars, libVars, uiVars>>

\* TagsToConvert with a defect: every listed tag converted
TagsToConvert_All(all) == all

\* the tags handed to convertTagToRelease
TagsToConvert(all) == Slice(all, 0, TagLimit)

\* what fetchAllTags returns when no tag was listed
EmptyTagsResult == [releases |-> <<>>, hasReleaseNotes |-> FALSE, usingTags |-> TRUE]

\* what fetchAllTags does with a response: throw, go round the loop, return
\* the empty result, or start one convertTagToRelease per tag (each issues its
\* commit-detail request at once) and await them all
TagsStep(resp) ==
    IF resp.rejected \/ ~Ok(resp.status)
    THEN [pc |-> "failed", tagPage |-> tagPage, tagHasMore |-> tagHasMore, allTags |-> allTags,
          converted |-> converted, issued |-> <<>>,
          result |-> <<>>,
          error |-> IF resp.rejected THEN FetchFailed
                    ELSE TagsFailure(resp, repoRef.owner, repoRef.repo)]
    ELSE LET all == allTags \o resp.items
             more == MorePages(resp)
             tagsToConvert == TagsToConvert(all)
         IN  IF more
             THEN [pc |-> "tags_fetch", tagPage |-> tagPage + 1, tagHasMore |-> TRUE,
                   allTags |-> all, converted |-> converted, issued |-> <<>>,
                   result |-> <<>>, error |-> NoValue]
             ELSE IF Len(all) = 0
             THEN [pc |-> "done", tagPage |-> tagPage + 1, tagHasMore |-> FALSE,
                   allTags |-> all, converted |-> converted, issued |-> <<>>,
                   result |-> <<EmptyTagsResult>>, error |-> NoValue]
             ELSE [pc |-> "converting", tagPage |-> tagPage + 1, tagHasMore |-> FALSE,
                   allTags |-> all,
                   converted |-> [i \in 1..Len(tagsToConvert) |-> <<>>],
                   issued |-> [i \in 1..Len(tagsToConvert) |->
                                 Request("commit", 0, tagsToConvert[i].commit.url)],
                   result |-> <<>>, error |-> NoValue]

\* fetchAllTags, from the response to the next await or the return
ReceiveTagsPage ==
    /\ pc = "tags_await"
    /\ \E resp \in FailureResponses \cup OkResponses(UpstreamTags, tagPage, Len(allTags), MaxTags) :
          LET n == TagsStep(resp)
          IN  /\ responses' = Append(responses, Logged("tags", tagPage, resp))
              /\ requests' = requests \o n.issued
              /\ pc' = n.pc
              /\ tagPage' = n.tagPage
              /\ tagHasMore' = n.tagHasMore
              /\ allTags' = n.allTags
              /\ converted' = n.converted
              /\ commitLog' = [i \in DOMAIN n.converted |-> <<>>]
              /\ result' = n.result
              /\ error' = n.error
    /\ UNCHANGED <<repoRef, page, hasMore, allReleases, now, rangeVars, libVars, uiVars>>

\* whether the body of a commit detail holds a date
HasDate(data) == data.committer # <<>> \/ data.author # <<>>

\* fetchCommitDetails with a defect: the body read whatever the outcome
fetchCommitDetails_IgnoresOutcome(outcome, data, clock) ==
    IF data.committer # <<>> THEN data.committer[1]
    ELSE IF data.author # <<>> THEN data.author[1]
    ELSE clock

\* fetchCommitDetails with a defect: the time of completion for every tag
fetchCommitDetails_AlwaysNow(outcome, data, clock) == clock

\* fetchCommitDetails: the date of a commit, or the current time when the
\* fetch fails or the body has neither date
fetchCommitDetails(outcome, data, clock) ==
    IF outcome # "ok" THEN clock
    ELSE IF data.committer # <<>> THEN data.committer[1]
    ELSE IF data.author # <<>> THEN data.author[1]
    ELSE clock

\* convertTagToRelease, given the date that fetchCommitDetails resolved
convertTagToRelease(tag, date) ==
    [name |-> tag.name,
     tag_name |-> tag.name,
     published_at |-> date,
     body |-> "This is a tag (" \o tag.name \o ") without release notes.",
     draft |-> FALSE,
     prerelease |-> Includes(tag.name, "alpha") \/ Includes(tag.name, "beta")
                      \/ Includes(tag.name, "rc"),
     breaking_change |-> FALSE]

\* one of the parallel conversions completes: the response to the commit-detail
\* fetch of tag i arrives, at a time not before the last event
ResolveCommit(i) ==
    /\ pc = "converting"
    /\ i \in DOMAIN converted
    /\ converted[i] = <<>>
    /\ \E clock \in now..(ClockStart + MaxTicks), outcome \in CommitOutcomes :
          LET tag == TagsToConvert(allTags)[i]
              date == fetchCommitDetails(outcome, CommitData(tag.commit.sha), clock)
          IN  /\ now' = clock
              /\ converted' = [converted EXCEPT ![i] = <<convertTagToRelease(tag, date)>>]
              /\ commitLog' = [commitLog EXCEPT ![i] =
                    <<[ok |-> outcome = "ok",
                       clockRead |-> IF outcome = "ok" /\ HasDate(CommitData(tag.commit.sha))
                                     THEN <<>> ELSE <<clock>>]>>]
    /\ UNCHANGED <<repoRef, pc, page, hasMore, allReleases, tagPage, tagHasMore, allTags,
                   result, error, requests, responses, rangeVars, libVars, uiVars>>

\* Promise.all has every conversion: sort, process, return
FinishTags ==
    /\ pc = "converting"
    /\ \A i \in DOMAIN converted : converted[i] # <<>>
    /\ result' = <<processReleases(SortNewestFirst([i \in DOMAIN converted |-> converted[i][1]]), TRUE)>>
    /\ pc' = "done"
    /\ UNCHANGED <<repoRef, page, hasMore, allReleases, tagPage, tagHasMore, allTags,
                   converted, commitLog, now, error, requests, responses, rangeVars, libVars, uiVars>>

Next ==
    \/ RequestReleasesPage
    \/ ReceiveReleasesPage
    \/ RequestTagsPage
    \/ ReceiveTagsPage
    \/ \E i \in 1..MaxTags : ResolveCommit(i)
    \/ FinishTags

Spec == InitAgg /\ [][Next]_vars

----------------------------------------------------------------------------
(* Properties of the aggregation *)

Returned == pc = "done"
Aggregation == result[1]

LogOf(endpoint) == {k \in 1..Len(responses) : responses[k].endpoint = endpoint}
Failed(k) == responses[k].rejected \/ ~(responses[k].status \in 200..299)

RECURSIVE ItemsReceived(_, _)
\* the items of the first k logged responses of an endpoint, in arrival order
ItemsReceived(endpoint, k) ==
    IF k = 0 THEN <<>>
    ELSE ItemsReceived(endpoint, k - 1)
            \o (IF responses[k].endpoint = endpoint THEN responses[k].items ELSE <<>>)

ReceivedReleases == ItemsReceived("releases", Len(responses))
ReceivedTags == ItemsReceived("tags", Len(responses))

\* a release stripped of the flag that processReleases recomputes
Upstream(r) == [r EXCEPT !.breaking_change = FALSE]
Occurrences(s, r) == Cardinality({i \in 1..Len(s) : Upstream(s[i]) = Upstream(r)})

\* C4: when the releases listing succeeds with at least one release, the
\* result holds every item received on every page, as often as it was
\* received: as many releases as items over all fetched pages.
C4_AllPagesReturned ==
    (Returned /\ Len(ReceivedReleases) >= 1) =>
        /\ Len(Aggregation.releases) = Len(ReceivedReleases)
        /\ \A r \in UpstreamReleases :
              Occurrences(Aggregation.releases, r) = Occurrences(ReceivedReleases, r)

\* three releases received over two pages, one of them twice
C4_Witness ==
    /\ Returned
    /\ Cardinality(LogOf("releases")) = 2
    /\ \A k \in LogOf("releases") : Len(responses[k].items) >= 1
    /\ Len(Aggregation.releases) = 3
    /\ \E r \in UpstreamReleases : Occurrences(ReceivedReleases, r) = 2

\* C5: every result, from releases or from tags, is sorted by published_at
\* descending: no release is preceded by an older one.
C5_NewestFirst ==
    Returned =>
        \A i, j \in 1..Len(Aggregation.releases) :
            i < j => Aggregation.releases[i].published_at >= Aggregation.releases[j].published_at

\* a tag-sourced result of two releases whose dates arrived oldest first, one
\* of them the time of a failed commit-detail fetch
C5_Witness ==
    /\ Returned
    /\ Aggregation.usingTags
    /\ Len(converted) = 2
    /\ converted[1][1].published_at < converted[2][1].published_at
    /\ converted[2][1].published_at >= ClockStart
    /\ Aggregation.releases[1].tag_name = converted[2][1].tag_name

\* C6: in every result usingTags is true exactly when the releases pagination
\* completed without error and accumulated no release; when the tag listing
\* is empty as well, the result has no releases, hasReleaseNotes = false and
\* usingTags = true.
C6_UsingTagsIffNoReleases ==
    Returned =>
        /\ Aggregation.usingTags <=>
              (/\ \A k \in LogOf("releases") : ~Failed(k)
               /\ Len(ReceivedReleases) = 0)
        /\ (Len(ReceivedReleases) = 0 /\ Len(ReceivedTags) = 0) =>
              /\ Aggregation.releases = <<>>
              /\ Aggregation.hasReleaseNotes = FALSE
              /\ Aggregation.usingTags = TRUE

\* no releases and no tags: the empty, tag-sourced result
C6_Witness ==
    /\ Returned
    /\ LogOf("releases") # {}
    /\ LogOf("tags") # {}
    /\ Len(ReceivedReleases) = 0
    /\ Len(ReceivedTags) = 0
    /\ Aggregation.usingTags
    /\ Aggregation.releases = <<>>

TagsRequested == \E k \in 1..Len(requests) : requests[k].endpoint = "tags"

\* C7: the tags are listed only after the releases phase succeeded with no
\* release: once a releases request has failed the aggregation has failed
\* with an error and no tags request is issued.
C7_NoFallbackAfterError ==
    /\ (\E k \in LogOf("releases") : Failed(k)) =>
          /\ pc = "failed"
          /\ error # NoValue
          /\ result = <<>>
          /\ ~TagsRequested
    /\ TagsRequested =>
          /\ \A k \in LogOf("releases") : ~Failed(k)
          /\ LogOf("releases") # {}
          /\ Len(ReceivedReleases) = 0

\* the first releases page answered 500 with nothing accumulated
C7_Witness ==
    /\ pc = "failed"
    /\ Len(responses) = 1
    /\ responses[1].endpoint = "releases"
    /\ responses[1].status = 500
    /\ allReleases = <<>>
    /\ ~TagsRequested

Listings == {k \in 1..Len(requests) : requests[k].endpoint \in {"releases", "tags"}}

\* C8: a failure on any page of either listing aborts the aggregation: it has
\* failed with an error and returns nothing of what was accumulated, the
\* failed request is the last one issued, and a listing never asks for the
\* same page twice.
C8_FailureAborts ==
    /\ \A k \in 1..Len(responses) :
          Failed(k) =>
             /\ pc = "failed"
             /\ error # NoValue
             /\ result = <<>>
             /\ k = Len(responses)
             /\ Len(requests) = Len(responses)
    /\ \A k, l \in Listings :
          (k < l /\ requests[k].endpoint = requests[l].endpoint)
             => requests[k].page < requests[l].page

\* page 2 of the releases listing fails after page 1 delivered releases
C8_Witness ==
    /\ pc = "failed"
    /\ Len(responses) = 2
    /\ responses[2].endpoint = "releases"
    /\ responses[2].page = 2
    /\ Failed(2)
    /\ Len(allReleases) >= 1
    /\ result = <<>>

\* C9: a listing response that is not ok is classified the same way in both
\* phases: 404 is "Repository not found", 403 with x-ratelimit-remaining "0"
\* is the rate limit, anything else is "GitHub API error" with the status and
\* the status text.
C9_FailureClassified ==
    \A k \in 1..Len(responses) :
        (~responses[k].rejected /\ Failed(k)) =>
            LET st == responses[k].status
            IN  error =
                  IF st = 404
                  THEN "Repository not found: " \o repoRef.owner \o "/" \o repoRef.repo
                  ELSE IF st = 403 /\ responses[k].remaining = "0"
                  THEN "GitHub API rate limit exceeded. Please try again later or add a GitHub token."
                  ELSE "GitHub API error: " \o ToString(st) \o " " \o StatusText(st)

\* the tags listing answers 403 with quota left
C9_Witness ==
    /\ pc = "failed"
    /\ responses[Len(responses)].endpoint = "tags"
    /\ responses[Len(responses)].status = 403
    /\ responses[Len(responses)].remaining = "42"
    /\ error = "GitHub API error: 403 Forbidden"

\* C10: every release of a result with usingTags = true has
\* breaking_change = false, whatever the tag is named.
C10_TagReleasesNotBreaking ==
    (Returned /\ Aggregation.usingTags) =>
        \A i \in 1..Len(Aggregation.releases) : ~Aggregation.releases[i].breaking_change

Considered == TagsToConvert(allTags)
CommitsRequested == \E k \in 1..Len(requests) : requests[k].endpoint = "commit"

\* the commit-detail fetch of tag i gave no date: it did not end ok, or its
\* body holds neither a committer nor an author date
NoCommitDate(i) ==
    \/ ~commitLog[i][1].ok
    \/ ~HasDate(CommitData(Considered[i].commit.sha))

\* the committer date of tag i's commit, else its author date
CommitDate(i) ==
    LET data == CommitData(Considered[i].commit.sha)
    IN  IF data.committer # <<>> THEN data.committer[1] ELSE data.author[1]

\* how often a tag/date pair occurs in a list of releases
Dated(s, tag, date) ==
    Cardinality({k \in 1..Len(s) : s[k].tag_name = tag /\ s[k].published_at = date})

\* C11: whatever subset of the commit-detail fetches fails, the aggregation
\* does not fail: once the conversions have started no error is raised, each
\* tag whose fetch gave no date is dated with the time at which that fetch
\* ended, every other tag with its commit date, and the result holds one
\* release per considered tag with those dates.
C11_CommitFailuresTolerated ==
    CommitsRequested =>
        /\ pc \in {"converting", "done"}
        /\ error = NoValue
        /\ \A i \in DOMAIN converted :
              converted[i] # <<>> =>
                 /\ converted[i][1].tag_name = Considered[i].name
                 /\ converted[i][1].published_at =
                       IF NoCommitDate(i) THEN commitLog[i][1].clockRead[1] ELSE CommitDate(i)
        /\ Returned =>
              /\ Len(Aggregation.releases) = Len(Considered)
              /\ \A i \in DOMAIN converted :
                    Dated(Aggregation.releases, converted[i][1].tag_name,
                                                converted[i][1].published_at)
                      = Dated([k \in DOMAIN converted |-> converted[k][1]],
                              converted[i][1].tag_name, converted[i][1].published_at)

\* two tags with commit dates, the fetch of the first failed and that of the
\* second succeeded: the first is dated with the clock, the second keeps its date
C11_Witness ==
    /\ Returned
    /\ Len(converted) = 2
    /\ ~commitLog[1][1].ok
    /\ commitLog[2][1].ok
    /\ CommitData(Considered[1].commit.sha).committer # <<>>
    /\ ~NoCommitDate(2)
    /\ converted[1][1].published_at = commitLog[1][1].clockRead[1]
    /\ converted[2][1].published_at = CommitDate(2)
    /\ Len(Aggregation.releases) = 2

----------------------------------------------------------------------------
(* fetchAllTags on a long listing: up to MaxListed tags, served in pages of *)
(* at most perPage; the commit details arrive in request order, all ok      *)

\* the k-th tag of the long listing
ListedTag(k) == Tag("v1.0." \o ToString(k), "c0ffee" \o ToString(k))

\* the next page of the long listing: some number of further tags, and a
\* next link only behind a full page
LongPages(have) ==
    { [rejected |-> FALSE, status |-> 200, statusText |-> StatusText(200), remaining |-> "42",
       link |-> l, items |-> [j \in 1..k |-> ListedTag(have + j)]] :
         k \in 0..(IF MaxListed - have < perPage THEN MaxListed - have ELSE perPage),
         l \in {LinkNext, LinkPrev} }

InitLong ==
    /\ repoRef \in Repos
    /\ pc = "tags_fetch"
    /\ page = 1 /\ hasMore = TRUE /\ allReleases = <<>>
    /\ tagPage = 1 /\ tagHasMore = TRUE /\ allTags = <<>>
    /\ converted = <<>>
    /\ commitLog = <<>>
    /\ now = ClockStart
    /\ result = <<>> /\ error = NoValue
    /\ requests = <<>> /\ responses = <<>>
    /\ RangeParked
    /\ LibParked
    /\ UiParked

\* fetchAllTags, from the response to the next await or the return
ReceiveLongTagsPage ==
    /\ pc = "tags_await"
    /\ \E resp \in {r \in LongPages(Len(allTags)) :
                      r.link = LinkNext <=> Len(r.items) = perPage} :
          LET n == TagsStep(resp)
          IN  /\ responses' = Append(responses, Logged("tags", tagPage, resp))
              /\ requests' = requests \o n.issued
              /\ pc' = n.pc
              /\ tagPage' = n.tagPage
              /\ tagHasMore' = n.tagHasMore
              /\ allTags' = n.allTags
              /\ converted' = n.converted
              /\ commitLog' = [i \in DOMAIN n.converted |-> <<>>]
              /\ result' = n.result
              /\ error' = n.error
    /\ UNCHANGED <<repoRef, page, hasMore, allReleases, now, rangeVars, libVars, uiVars>>

\* the response to the oldest pending commit-detail fetch arrives
ResolveNextCommit ==
    /\ pc = "converting"
    /\ \E i \in DOMAIN converted :
          /\ converted[i] = <<>>
          /\ \A j \in 1..(i - 1) : converted[j] # <<>>
          /\ LET tag == TagsToConvert(allTags)[i]
                 date == fetchCommitDetails("ok", CommitData(tag.commit.sha), now)
             IN  /\ converted' = [converted EXCEPT ![i] = <<convertTagToRelease(tag, date)>>]
                 /\ commitLog' = [commitLog EXCEPT ![i] = <<[ok |-> TRUE, clockRead |-> <<>>]>>]
    /\ UNCHANGED <<repoRef, pc, page, hasMore, allReleases, tagPage, tagHasMore, allTags,
                   now, result, error, requests, responses, rangeVars, libVars, uiVars>>

NextLong ==
    \/ RequestTagsPage
    \/ ReceiveLongTagsPage
    \/ ResolveNextCommit
    \/ FinishTags

SpecLong == InitLong /\ [][NextLong]_vars

CommitRequests == {k \in 1..Len(requests) : requests[k].endpoint = "commit"}

\* C12: with n tags listed over all pages only the first 50 in listing order
\* are converted: at most 50 commit-detail requests are issued, to the commits
\* of those tags, and the result holds exactly min(n, 50) releases, theirs.
C12_FirstFiftyTags ==
    LET n == Len(ReceivedTags)
        m == IF n < 50 THEN n ELSE 50
    IN  /\ Cardinality(CommitRequests) <= 50
        /\ \A k \in CommitRequests :
              \E i \in 1..m : requests[k].url = ReceivedTags[i].commit.url
        /\ Returned =>
              /\ Len(Aggregation.releases) = m
              /\ {Aggregation.releases[i].tag_name : i \in 1..m}
                    = {ReceivedTags[i].name : i \in 1..m}

\* 102 tags listed over two pages, 50 releases returned
C12_Witness ==
    /\ Returned
    /\ Cardinality(LogOf("tags")) = 2
    /\ Len(ReceivedTags) > 100
    /\ Cardinality(CommitRequests) = 50
    /\ Len(Aggregation.releases) = 50

\* the breaking_change some received upstream record with this tag, date and
\* body carried
UpstreamFlags(r) ==
    {ReceivedReleases[k].breaking_change : k \in
        {k \in 1..Len(ReceivedReleases) :
            /\ ReceivedReleases[k].tag_name = r.tag_name
            /\ ReceivedReleases[k].published_at = r.published_at
            /\ ReceivedReleases[k].body = r.body}}

\* C13: every release a releases-sourced aggregation returns has breaking_change
\* equal to detectBreakingChange of its body, whatever the upstream record carried.
C13_BreakingRecomputed ==
    (Returned /\ ~Aggregation.usingTags) =>
        \A i \in 1..Len(Aggregation.releases) :
            Aggregation.releases[i].breaking_change
                = detectBreakingChange(Aggregation.releases[i].body)

\* a result with a release that came flagged and is returned unflagged, and one
\* that came unflagged and is returned flagged
C13_Witness ==
    /\ Returned /\ ~Aggregation.usingTags
    /\ \E i, j \in 1..Len(Aggregation.releases) :
          /\ UpstreamFlags(Aggregation.releases[i]) = {TRUE}
          /\ ~Aggregation.releases[i].breaking_change
          /\ UpstreamFlags(Aggregation.releases[j]) = {FALSE}
          /\ Aggregation.releases[j].breaking_change

----------------------------------------------------------------------------
(* processReleases applied to every list of at most MaxLen releases         *)

\* the bodies of the releases handed to processReleases; a null body is falsy
\* like "" in every test the code applies to it and is written ""
ProcessBodies ==
    { "",
      "   ",
      "Fix typo",
      "  1234567890123456789  ",
      "12345678901234567890",
      "Minor fixes and improvements to the docs.",
      "This is a tag (v1.0.0) without release notes.",
      "This is a tag (v3) shipped without release notes." }

InitProcess ==
    /\ libArg \in { [releases |-> rs, usingTags |-> u] :
                       rs \in SeqsUpTo({Rel("v1.0.0", "v1.0.0", 1, b, FALSE) : b \in ProcessBodies},
                                       MaxLen),
                       u \in BOOLEAN }
    /\ libReturn = <<>>
    /\ RangeParked
    /\ AggParked
    /\ UiParked

CallProcessReleases ==
    /\ libReturn = <<>>
    /\ libReturn' = <<processReleases(libArg.releases, libArg.usingTags)>>
    /\ UNCHANGED <<libArg, rangeVars, aggVars, uiVars>>

NextProcess == CallProcessReleases

SpecProcess == InitProcess /\ [][NextProcess]_vars

\* the body convertTagToRelease gives the release of a tag of this name
SynthesizedBody(name) == convertTagToRelease(Tag(name, "0a1b2c3d"), 0).body

\* body is the text synthesized for a tag of some name
IsSynthesized(body) ==
    \E k \in 0..(Len(body) - 15) : body = SynthesizedBody(SubSeq(body, 16, 15 + k))

\* C14: hasReleaseNotes is true iff some release has a body that is non-empty,
\* is not the text synthesized for a tag, and has at least 20 characters after
\* trimming; it is false for the empty list.
C14_MeaningfulNotes ==
    libReturn # <<>> =>
        (libReturn[1].hasReleaseNotes <=>
            \E i \in 1..Len(libArg.releases) :
                LET body == libArg.releases[i].body
                IN  /\ body # ""
                    /\ ~IsSynthesized(body)
                    /\ Len(Trim(body)) >= 20)

----------------------------------------------------------------------------
(* detectBreakingChange applied to release bodies                           *)

\* phrases a release body may hold: the phrases of the patterns in several
\* letter cases, and phrases that come close to them
BodyPhrases ==
    { "", "Fix typo",
      "breaking change", "Breaking Changes", "BREAKING CHANGE", "bReAkInG cHaNgE",
      "breaking  change", "breaking", "BREAKING",
      "**breaking**", "**Breaking**", "*breaking*",
      "incompatible", "INCOMPATIBLE", "compatible",
      "not backward compatible", "Not Backward Compatible", "not backwards compatible",
      "dropped support", "Dropped Support", "drop support",
      "deprecated", "Deprecation", "DEPRECATED", "deprecate", "deprecating" }

BodyLeads == { "", "Note: ", "un" }
BodyTails == { "", "s", ".\n" }

DetectBodies == { l \o p \o t : l \in BodyLeads, p \in BodyPhrases, t \in BodyTails }

InitDetect ==
    /\ libArg \in DetectBodies
    /\ libReturn = <<>>
    /\ RangeParked
    /\ AggParked
    /\ UiParked

CallDetectBreakingChange ==
    /\ libReturn = <<>>
    /\ libReturn' = <<detectBreakingChange(libArg)>>
    /\ UNCHANGED <<libArg, rangeVars, aggVars, uiVars>>

NextDetect == CallDetectBreakingChange

SpecDetect == InitDetect /\ [][NextDetect]_vars

\* a and b are the same up to the case of their letters
SameLetters(a, b) ==
    /\ Len(a) = Len(b)
    /\ \A j \in 1..Len(a) : ToLowerChar(CharAt(a, j)) = ToLowerChar(CharAt(b, j))

\* phrase occurs somewhere in body, in any letter case or exactly as written
Occurs(body, phrase, anyCase) ==
    \E i \in 1..(Len(body) - Len(phrase) + 1) :
        LET part == SubSeq(body, i, i + Len(phrase) - 1)
        IN  IF anyCase THEN SameLetters(part, phrase) ELSE part = phrase

\* the seven patterns: the phrases each one matches, and its i flag
SevenPatterns ==
    << [phrases |-> {"breaking change", "breaking changes"}, anyCase |-> TRUE],
       [phrases |-> {"**breaking**"}, anyCase |-> TRUE],
       [phrases |-> {"BREAKING CHANGE"}, anyCase |-> FALSE],
       [phrases |-> {"incompatible"}, anyCase |-> TRUE],
       [phrases |-> {"not backward compatible"}, anyCase |-> TRUE],
       [phrases |-> {"dropped support"}, anyCase |-> TRUE],
       [phrases |-> {"deprecated", "deprecation"}, anyCase |-> TRUE] >>

MatchesPattern(body, k) ==
    \E phrase \in SevenPatterns[k].phrases : Occurs(body, phrase, SevenPatterns[k].anyCase)

\* C15: detectBreakingChange returns false for an empty body; for a non-empty
\* body it returns true iff the body matches one of the seven patterns; every
\* body holding "breaking change" in any letter case gives true.
C15_SevenPatterns ==
    libReturn # <<>> =>
        /\ libArg = "" => ~libReturn[1]
        /\ libArg # "" => (libReturn[1] <=> \E k \in 1..7 : MatchesPattern(libArg, k))
        /\ Occurs(libArg, "breaking change", TRUE) => libReturn[1]

\* a body that holds "breaking change" in mixed case only was classified true
C15_Witness ==
    /\ libReturn = <<TRUE>>
    /\ Occurs(libArg, "breaking change", TRUE)
    /\ ~Occurs(libArg, "breaking change", FALSE)
    /\ ~Occurs(libArg, "BREAKING CHANGE", FALSE)

----------------------------------------------------------------------------
(* parseGitHubUrl applied to URLs with and without decoration               *)

UrlSchemes == { "https://", "http://", "" }
UrlHosts == { "github.com", "GitHub.com", "gitlab.com" }
UrlPaths == { <<>>, <<"facebook">>, <<"facebook", "react">>, <<"facebook", "react-native">>,
              <<"Hayawan", "breakingchanges">>, <<"facebook", "react", "releases">> }
UrlEndings == { "", "/", ".git", ".git/" }
UrlTails == { "", "?tab=readme" }
UrlPadding == { "", "  " }

UrlParts ==
    [scheme : UrlSchemes, host : UrlHosts, path : UrlPaths, ending : UrlEndings,
     tail : UrlTails, padding : UrlPadding]

RECURSIVE JoinPath(_)
JoinPath(segments) ==
    IF segments = <<>> THEN "" ELSE "/" \o Head(segments) \o JoinPath(Tail(segments))

UrlText(p) ==
    p.padding \o p.scheme \o p.host \o JoinPath(p.path) \o p.ending \o p.tail \o p.padding

\* inputs that are no URL at all
NotUrls == { "", "not a url", "git@github.com:facebook/react.git" }

InitParse ==
    /\ libArg \in {UrlText(p) : p \in UrlParts} \cup NotUrls
    /\ libReturn = <<>>
    /\ RangeParked
    /\ AggParked
    /\ UiParked

CallParseGitHubUrl ==
    /\ libReturn = <<>>
    /\ libReturn' = <<parseGitHubUrl(libArg)>>
    /\ UNCHANGED <<libArg, rangeVars, aggVars, uiVars>>

NextParse == CallParseGitHubUrl

SpecParse == InitParse /\ [][NextParse]_vars

\* the ways the argument of the call can be read as scheme, host, path, ...
PartsOfArg == {p \in UrlParts : UrlText(p) = libArg}

OnForge(p) == p.scheme # "" /\ ToLower(p.host) = "github.com"

\* C16: a URL on github.com with at least two path segments gives the first two
\* segments as owner and repo, with or without a trailing slash, a ".git"
\* suffix, or both.
C16_DecorationIndependent ==
    libReturn # <<>> =>
        \A p \in PartsOfArg :
            (OnForge(p) /\ Len(p.path) >= 2) =>
                libReturn[1] = [threw |-> FALSE,
                                value |-> <<[owner |-> p.path[1], repo |-> p.path[2]]>>]

\* C17: parseGitHubUrl never throws, and returns null for every input that is
\* no parseable URL, whose host is not github.com, or whose path has fewer than
\* two segments.
C17_InvalidGivesNull ==
    libReturn # <<>> =>
        /\ ~libReturn[1].threw
        /\ ( \/ libArg \in NotUrls
             \/ \E p \in PartsOfArg : ~OnForge(p) \/ Len(p.path) < 2 )
              => libReturn[1].value = <<>>

\* null was returned for an input that new URL rejects
C17_Witness ==
    /\ libReturn = <<[threw |-> FALSE, value |-> <<>>]>>
    /\ libArg = "git@github.com:facebook/react.git"

----------------------------------------------------------------------------
(* generateChangelogText applied to every list of at most MaxLen releases   *)

\* the releases a caller may have selected: without name, without body, with a
\* body that holds a horizontal rule, and with one that ends in a rule
SelectedReleases ==
    { Rel("v1.0.0", "v1.0.0", 1, "", FALSE),
      Rel("v1.1.0", "", 2, "Fix typo", FALSE),
      Rel("v2.0.0", "Version 2", 3, "Intro\n\n---\n\nDetails", TRUE),
      Rel("v2.1.0", "", 4, "", FALSE),
      Rel("v3.0.0", "Version 3", 5, "Changes\n---", FALSE) }

InitChangelog ==
    /\ libArg \in SeqsUpTo(SelectedReleases, MaxLen)
    /\ libReturn = <<>>
    /\ RangeParked
    /\ AggParked
    /\ UiParked

CallGenerateChangelogText ==
    /\ libReturn = <<>>
    /\ libReturn' = <<generateChangelogText(libArg)>>
    /\ UNCHANGED <<libArg, rangeVars, aggVars, uiVars>>

NextChangelog == CallGenerateChangelogText

SpecChangelog == InitChangelog /\ [][NextChangelog]_vars

\* text.split(separator)
RECURSIVE SplitOn(_, _)
SplitOn(text, separator) ==
    LET i == IndexOf(text, separator)
    IN  IF i = 0 THEN <<text>>
        ELSE <<SubSeq(text, 1, i - 1)>>
                \o SplitOn(SubSeq(text, i + Len(separator), Len(text)), separator)

\* heading and notes of one release, in the words of the contract
Heading(r) == "## " \o (IF r.name = "" THEN r.tag_name ELSE r.name) \o " (" \o r.tag_name \o ")"
Notes(r) == IF r.body = "" THEN "No release notes provided." ELSE r.body
EntryOf(r) == Heading(r) \o "\n\n" \o Notes(r) \o "\n\n"

\* C18: splitting the text of a non-empty list on the separator gives one
\* segment per release, the k-th being the entry of the k-th release.
C18_SplitGivesEntries ==
    (libReturn # <<>> /\ Len(libArg) > 0) =>
        SplitOn(libReturn[1], "---\n\n") = [k \in 1..Len(libArg) |-> EntryOf(libArg[k])]

\* C18 as amended: the same for lists none of whose entries holds the separator.
C18_SplitGivesEntriesAmended ==
    (/\ libReturn # <<>> /\ Len(libArg) > 0
     /\ \A k \in 1..Len(libArg) : ~Includes(EntryOf(libArg[k]), "---\n\n")) =>
        SplitOn(libReturn[1], "---\n\n") = [k \in 1..Len(libArg) |-> EntryOf(libArg[k])]

\* the text of three releases whose entries hold no separator was split
C18_Witness ==
    /\ libReturn # <<>> /\ Len(libArg) = 3
    /\ \A k \in 1..Len(libArg) : ~Includes(EntryOf(libArg[k]), "---\n\n")
    /\ Len(SplitOn(libReturn[1], "---\n\n")) = 3

\* the entries of a list, the last one first put behind the others
RECURSIVE Assembled(_)
Assembled(rs) ==
    IF Len(rs) = 1 THEN EntryOf(rs[1])
    ELSE Assembled(SubSeq(rs, 1, Len(rs) - 1)) \o "---\n\n" \o EntryOf(rs[Len(rs)])

\* C19: the text is 'No releases selected.' for the empty list; otherwise the
\* entries in input order joined by the separator, each a heading with the name
\* (the tag when the name is empty) and the tag in parentheses, then the body
\* or 'No release notes provided.'.
C19_ChangelogReference ==
    libReturn # <<>> =>
        libReturn[1] = IF libArg = <<>> THEN "No releases selected." ELSE Assembled(libArg)

\* an older release listed before a newer one, one without name and one without body
C19_Witness ==
    /\ libReturn # <<>> /\ Len(libArg) = 3
    /\ libArg[1].published_at < libArg[2].published_at
    /\ \E k \in 1..3 : libArg[k].name = ""
    /\ \E k \in 1..3 : libArg[k].body = ""
    /\ StartsWith(libReturn[1], Heading(libArg[1]))

\* the requests and the responses of one listing, in the order they happened
RequestsOf(endpoint) == SelectSeq(requests, LAMBDA r : r.endpoint = endpoint)
ResponsesOf(endpoint) == SelectSeq(responses, LAMBDA r : r.endpoint = endpoint)

\* C20: in each listing the j-th request asks for page j with page size 100; a
\* page is requested only when every earlier page has been answered; and no
\* page is requested after a response that is empty or whose Link header has no
\* rel="next".
C20_SequentialPagination ==
    \A endpoint \in {"releases", "tags"} :
        LET asked == RequestsOf(endpoint)
            answered == ResponsesOf(endpoint)
        IN  /\ \A j \in 1..Len(asked) :
                  /\ asked[j].page = j
                  /\ EndsWith(asked[j].url,
                              "/" \o endpoint \o "?per_page=100&page=" \o ToString(j))
            /\ Len(answered) <= Len(asked)
            /\ Len(asked) <= Len(answered) + 1
            /\ \A j \in 1..Len(answered) :
                  (answered[j].items = <<>> \/ ~Includes(answered[j].link, "rel=\"next\""))
                     => Len(asked) = j

\* page 2 of the releases was requested after page 1 came with a next link,
\* and no page after the empty page 2
C20_Witness ==
    /\ Len(RequestsOf("releases")) = 2
    /\ Len(ResponsesOf("releases")) = 2
    /\ ResponsesOf("releases")[1].link = LinkNext
    /\ ResponsesOf("releases")[2].items = <<>>
    /\ ~Failed(2)
    /\ Returned

----------------------------------------------------------------------------
(* Duplicate tags and chronology in getReleasesBetweenVersions *)

\* the positions of a tag in a list
PositionsOf(s, tag) == {i \in 1..Len(s) : s[i].tag_name = tag}
FirstOf(s, tag) == CHOOSE i \in PositionsOf(s, tag) : \A j \in PositionsOf(s, tag) : i <= j
LastOf(s, tag) == CHOOSE i \in PositionsOf(s, tag) : \A j \in PositionsOf(s, tag) : i >= j

\* C21: when a tag occurs twice in the newest-first list, both releases stay in
\* it and a lookup of the tag resolves to the last of the two: the range from
\* the tag to itself is that release.
C21_LastWins ==
    (/\ rsPc = "returned"
     /\ rsReleases = ReSorted(rsReleases)
     /\ rsCurrent = rsTarget
     /\ TagCount(rsReleases, rsCurrent) = 2) =>
        rsResult = <<rsReleases[LastOf(rsReleases, rsCurrent)]>>

\* C21 as amended: a lookup resolves to the first of the duplicates in the
\* newest-first list, and a range keeps every duplicate between its endpoints:
\* it is the positions from the first occurrence of one tag to the first
\* occurrence of the other.
C21_FirstWins ==
    (rsPc = "returned" /\ HasTag(rsReleases, rsCurrent) /\ HasTag(rsReleases, rsTarget)) =>
        LET t == ReSorted(rsReleases)
            a == FirstOf(t, rsCurrent)
            b == FirstOf(t, rsTarget)
            lo == IF a < b THEN a ELSE b
            hi == IF a < b THEN b ELSE a
        IN  rsResult = [k \in 1..(hi - lo + 1) |-> t[lo + k - 1]]

\* a range from a tag that occurs twice to an older release: both duplicates
\* are in the result, the newer one first
C21_Witness ==
    /\ rsPc = "returned"
    /\ TagCount(rsReleases, rsCurrent) = 2
    /\ TagCount(rsReleases, rsTarget) = 1
    /\ Len(rsResult) = 3
    /\ rsResult[1].tag_name = rsCurrent
    /\ rsResult[2].tag_name = rsCurrent
    /\ rsResult[1].published_at > rsResult[2].published_at
    /\ rsResult[3].tag_name = rsTarget

UniquelyTagged(s) == \A i, j \in 1..Len(s) : s[i].tag_name = s[j].tag_name => i = j
TimeOf(s, tag) == s[FirstOf(s, tag)].published_at
Holds(s, r) == \E k \in 1..Len(s) : s[k] = r

\* C22: for tags A and B present in a list of uniquely tagged releases, the
\* result holds every release published strictly between A and B, and none
\* published strictly after the newer or strictly before the older of the two.
C22_ChronologicallyContiguous ==
    (/\ rsPc = "returned" /\ UniquelyTagged(rsReleases)
     /\ HasTag(rsReleases, rsCurrent) /\ HasTag(rsReleases, rsTarget)) =>
        LET ta == TimeOf(rsReleases, rsCurrent)
            tb == TimeOf(rsReleases, rsTarget)
            older == IF ta < tb THEN ta ELSE tb
            newer == IF ta < tb THEN tb ELSE ta
        IN  /\ \A i \in 1..Len(rsReleases) :
                  (older < rsReleases[i].published_at /\ rsReleases[i].published_at < newer)
                     => Holds(rsResult, rsReleases[i])
            /\ \A k \in 1..Len(rsResult) :
                  older <= rsResult[k].published_at /\ rsResult[k].published_at <= newer

\* a list given oldest first whose range from the oldest to the newest tag
\* holds the release published between them
C22_Witness ==
    /\ rsPc = "returned"
    /\ Len(rsReleases) = 3 /\ UniquelyTagged(rsReleases)
    /\ rsReleases[1].published_at < rsReleases[2].published_at
    /\ rsReleases[2].published_at < rsReleases[3].published_at
    /\ rsCurrent = rsReleases[1].tag_name
    /\ rsTarget = rsReleases[3].tag_name
    /\ Holds(rsResult, rsReleases[2])

----------------------------------------------------------------------------
(* VersionSelector over a newest-first list of uniquely tagged releases     *)

\* n releases, newest first
History(n) ==
    [i \in 1..n |-> Rel("v" \o ToString(n - i + 1) \o ".0.0", "", n - i + 1, "", FALSE)]

\* versionOptions: the value of each option
versionOptions == [i \in 1..Len(vsReleases) |-> vsReleases[i].tag_name]

\* options.findIndex(v => v.value === value), 0-based
OptionIndex(options, value) ==
    IF \E i \in 1..Len(options) : options[i] = value
    THEN (CHOOSE i \in 1..Len(options) :
             /\ options[i] = value
             /\ \A j \in 1..(i - 1) : options[j] # value) - 1
    ELSE -1

\* the indexes of an options array
Indexes(options) == 0..(Len(options) - 1)

\* options.filter((_, index) => ...), as the set of the values at the
\* indexes that are kept
OptionsAt(options, kept) == {options[index + 1] : index \in kept \cap Indexes(options)}

\* targetVersionOptions with a defect: not filtered
targetVersionOptions_All == OptionsAt(versionOptions, Indexes(versionOptions))

targetVersionOptions ==
    LET currentIndex == OptionIndex(versionOptions, vsCurrent)
    IN  IF vsCurrent = NoValue \/ currentIndex = -1
        THEN OptionsAt(versionOptions, Indexes(versionOptions))
        ELSE OptionsAt(versionOptions,
                       {index \in Indexes(versionOptions) : index < currentIndex})

currentVersionOptions ==
    LET targetIndex == OptionIndex(versionOptions, vsTarget)
    IN  IF vsTarget = NoValue \/ targetIndex = -1
        THEN OptionsAt(versionOptions, Indexes(versionOptions))
        ELSE OptionsAt(versionOptions,
                       {index \in Indexes(versionOptions) : index > targetIndex})

InitSelector ==
    /\ vsReleases \in {History(n) : n \in 0..MaxVersions}
    /\ vsLoading = FALSE
    /\ vsCurrent = NoValue /\ vsTarget = NoValue
    /\ vsSubmitted = <<>>
    /\ PageParked
    /\ SvcParked
    /\ RangeParked
    /\ AggParked
    /\ LibParked

\* the Current Version select: an option picked, or the value cleared
ChangeCurrent ==
    /\ ~(vsLoading \/ Len(vsReleases) = 0)
    /\ \/ \E v \in currentVersionOptions : vsCurrent' = v
       \/ vsCurrent # NoValue /\ vsCurrent' = NoValue
    /\ UNCHANGED <<vsReleases, vsLoading, vsTarget, vsSubmitted, rangeVars, aggVars, libVars, pageVars, svcVars>>

\* the Target Version select
ChangeTarget ==
    /\ ~(vsLoading \/ Len(vsReleases) = 0 \/ vsCurrent = NoValue)
    /\ \/ \E v \in targetVersionOptions : vsTarget' = v
       \/ vsTarget # NoValue /\ vsTarget' = NoValue
    /\ UNCHANGED <<vsReleases, vsLoading, vsCurrent, vsSubmitted, rangeVars, aggVars, libVars, pageVars, svcVars>>

\* the Compare Versions button
CompareVersions ==
    /\ ~(vsCurrent = NoValue \/ vsTarget = NoValue \/ vsLoading)
    /\ vsSubmitted' = <<vsCurrent, vsTarget>>
    /\ UNCHANGED <<vsReleases, vsLoading, vsCurrent, vsTarget, rangeVars, aggVars, libVars, pageVars, svcVars>>

\* the parent renders the selector with another isLoading
RenderLoading ==
    /\ vsLoading' = ~vsLoading
    /\ UNCHANGED <<vsReleases, vsCurrent, vsTarget, vsSubmitted, rangeVars, aggVars, libVars, pageVars, svcVars>>

NextSelector ==
    \/ ChangeCurrent
    \/ ChangeTarget
    \/ CompareVersions
    \/ RenderLoading

SpecSelector == InitSelector /\ [][NextSelector]_vars

\* C23: whenever both versions are set the target is strictly newer than the
\* current one (its index in the list is strictly smaller), and so is every
\* pair handed to onSelect.
C23_TargetNewer ==
    /\ (vsCurrent # NoValue /\ vsTarget # NoValue) =>
          /\ OptionIndex(versionOptions, vsTarget) >= 0
          /\ OptionIndex(versionOptions, vsTarget) < OptionIndex(versionOptions, vsCurrent)
    /\ vsSubmitted # <<>> =>
          /\ OptionIndex(versionOptions, vsSubmitted[2]) >= 0
          /\ OptionIndex(versionOptions, vsSubmitted[2])
                < OptionIndex(versionOptions, vsSubmitted[1])

\* a pair was submitted, then the current version was cleared and set again
\* while the target stayed
C23_Witness ==
    /\ vsSubmitted # <<>>
    /\ vsTarget = vsSubmitted[2]
    /\ vsCurrent # NoValue /\ vsCurrent # vsSubmitted[1]
    /\ Len(vsReleases) >= 3

----------------------------------------------------------------------------
(* Home (page.tsx) with its RepoInput: submissions and their responses      *)

PageRepos == { [owner |-> "facebook", repo |-> "react"],
               [owner |-> "vercel", repo |-> "next.js"] }

\* what GET /api/releases answers for a repository: its releases, or none
ServedReleases(repo) ==
    { <<>>,
      << Rel(repo.repo \o "-v2.0.0", "", 2, "Breaking changes in the configuration.", FALSE),
         Rel(repo.repo \o "-v1.0.0", "", 1, "The first public release of it.", FALSE) >> }

\* the ways the fetch of handleRepoSubmit can end: rejected, answered not ok
\* with an error body, answered ok with a ProcessedReleasesResult
PageResponses(repo) ==
    { [kind |-> "rejected", message |-> "Failed to fetch", data |-> <<>>],
      [kind |-> "not_ok", message |-> "Repository not found: " \o repo.owner \o "/" \o repo.repo,
       data |-> <<>>] }
    \cup { [kind |-> "ok", message |-> NoValue, data |-> <<processReleases(rs, FALSE)>>] :
              rs \in ServedReleases(repo) }

InitPage ==
    /\ pgRepoInfo = <<>> /\ pgReleases = <<>> /\ pgHasNotes = TRUE /\ pgSelected = <<>>
    /\ pgLoading = FALSE /\ pgError = NoValue /\ pgExpanded = TRUE
    /\ pgParsedRepo = <<>> /\ pgSubmitted = <<>> /\ pgFlights = <<>>
    /\ SelParked
    /\ SvcParked
    /\ RangeParked
    /\ AggParked
    /\ LibParked

\* RepoInput.handleChange / handlePopularRepoSelect: the URL parses to a
\* repository, or to none
EditUrl ==
    /\ pgExpanded
    /\ pgParsedRepo' \in {<<>>} \cup {<<r>> : r \in PageRepos}
    /\ UNCHANGED <<pgRepoInfo, pgReleases, pgHasNotes, pgSelected, pgLoading, pgError,
                   pgExpanded, pgSubmitted, pgFlights, selVars, rangeVars, aggVars, libVars, svcVars>>

\* FetchEnabled with a defect: the button enabled while loading
FetchEnabled_WhileLoading == pgExpanded /\ pgParsedRepo # <<>>

\* the Fetch Releases button is rendered and not disabled
FetchEnabled == pgExpanded /\ ~(pgParsedRepo = <<>> \/ pgLoading)

\* ReleasesOnSubmit with a defect: no setReleases([])
ReleasesOnSubmit_Kept == pgReleases

\* setReleases([]) in handleRepoSubmit
ReleasesOnSubmit == <<>>

\* Fetch Releases clicked: RepoInput.handleSubmit and handleRepoSubmit up to
\* its await fetch(...); the RepoInput is no longer rendered and loses its state
ClickFetchReleases ==
    /\ FetchEnabled
    /\ Len(pgSubmitted) < MaxSubmits
    /\ pgLoading' = TRUE
    /\ pgError' = NoValue
    /\ pgReleases' = ReleasesOnSubmit
    /\ pgSelected' = <<>>
    /\ pgRepoInfo' = pgParsedRepo
    /\ pgExpanded' = FALSE
    /\ pgParsedRepo' = <<>>
    /\ pgSubmitted' = Append(pgSubmitted, pgParsedRepo[1])
    /\ pgFlights' = Append(pgFlights,
                           [id |-> Len(pgSubmitted) + 1, repo |-> pgParsedRepo[1], at |-> "fetch",
                            response |-> <<>>])
    /\ UNCHANGED <<pgHasNotes, selVars, rangeVars, aggVars, libVars, svcVars>>

\* Change Repository clicked: the RepoInput is rendered anew
ClickChangeRepository ==
    /\ ~pgExpanded
    /\ pgExpanded' = TRUE
    /\ pgParsedRepo' = <<>>
    /\ UNCHANGED <<pgRepoInfo, pgReleases, pgHasNotes, pgSelected, pgLoading, pgError,
                   pgSubmitted, pgFlights, selVars, rangeVars, aggVars, libVars, svcVars>>

Without(flights, i) == SubSeq(flights, 1, i - 1) \o SubSeq(flights, i + 1, Len(flights))

\* await fetch(...) of call i ends: rejected (catch, finally), or with a
\* response whose body is awaited next
FetchSettles(i) ==
    /\ i \in DOMAIN pgFlights
    /\ pgFlights[i].at = "fetch"
    /\ \E resp \in PageResponses(pgFlights[i].repo) :
          IF resp.kind = "rejected"
          THEN /\ pgError' = resp.message
               /\ pgLoading' = FALSE
               /\ pgFlights' = Without(pgFlights, i)
          ELSE /\ pgFlights' = [pgFlights EXCEPT ![i].at = "json", ![i].response = <<resp>>]
               /\ UNCHANGED <<pgError, pgLoading>>
    /\ UNCHANGED <<pgRepoInfo, pgReleases, pgHasNotes, pgSelected, pgExpanded, pgParsedRepo,
                   pgSubmitted, selVars, rangeVars, aggVars, libVars, svcVars>>

\* await response.json() of call i ends: the error thrown and caught, or the
\* result stored; finally
BodyArrives(i) ==
    /\ i \in DOMAIN pgFlights
    /\ pgFlights[i].at = "json"
    /\ LET resp == pgFlights[i].response[1]
       IN  IF resp.kind = "not_ok"
           THEN /\ pgError' = resp.message
                /\ UNCHANGED <<pgReleases, pgHasNotes>>
           ELSE /\ pgReleases' = resp.data[1].releases
                /\ pgHasNotes' = resp.data[1].hasReleaseNotes
                /\ UNCHANGED pgError
    /\ pgLoading' = FALSE
    /\ pgFlights' = Without(pgFlights, i)
    /\ UNCHANGED <<pgRepoInfo, pgSelected, pgExpanded, pgParsedRepo, pgSubmitted,
                   selVars, rangeVars, aggVars, libVars, svcVars>>

\* Compare Versions clicked in the VersionSelector the page renders, with a
\* target newer than the current version: handleVersionSelect
CompareOnPage ==
    /\ pgRepoInfo # <<>> /\ Len(pgReleases) > 0 /\ pgHasNotes
    /\ ~pgLoading
    /\ \E c, t \in 1..Len(pgReleases) :
          /\ t < c
          /\ pgSelected' = getReleasesBetweenVersions(pgReleases, pgReleases[c].tag_name,
                                                      pgReleases[t].tag_name)
    /\ UNCHANGED <<pgRepoInfo, pgReleases, pgHasNotes, pgLoading, pgError, pgExpanded,
                   pgParsedRepo, pgSubmitted, pgFlights, selVars, rangeVars, aggVars, libVars, svcVars>>

\* the error alert closed
CloseAlert ==
    /\ pgError # NoValue /\ ~pgLoading
    /\ pgError' = NoValue
    /\ UNCHANGED <<pgRepoInfo, pgReleases, pgHasNotes, pgSelected, pgLoading, pgExpanded,
                   pgParsedRepo, pgSubmitted, pgFlights, selVars, rangeVars, aggVars, libVars, svcVars>>

NextPage ==
    \/ EditUrl
    \/ ClickFetchReleases
    \/ ClickChangeRepository
    \/ \E i \in 1..MaxSubmits : FetchSettles(i)
    \/ \E i \in 1..MaxSubmits : BodyArrives(i)
    \/ CompareOnPage
    \/ CloseAlert

SpecPage == InitPage /\ [][NextPage]_vars

\* the releases some answer for a repository holds
ResultsFor(repo) ==
    UNION { {rs[k] : k \in 1..Len(rs)} :
              rs \in {processReleases(x, FALSE).releases : x \in ServedReleases(repo)} }

\* C24: from the start of a submission until its answer the release list and
\* the selected range are empty, and the releases shown and selected are always
\* releases of the repository submitted last.
C24_PreviousDiscarded ==
    /\ pgLoading => (pgReleases = <<>> /\ pgSelected = <<>>)
    /\ pgReleases # <<>> =>
          /\ pgSubmitted # <<>>
          /\ pgRepoInfo = <<pgSubmitted[Len(pgSubmitted)]>>
          /\ \E x \in ServedReleases(pgRepoInfo[1]) :
                pgReleases = processReleases(x, FALSE).releases
    /\ \A k \in 1..Len(pgSelected) :
          pgSelected[k] \in ResultsFor(pgSubmitted[Len(pgSubmitted)])

\* a second, different repository was submitted and the body of its answer is
\* awaited: nothing is shown, and the RepoInput has been opened again
C24_Witness ==
    /\ Len(pgSubmitted) = 2 /\ pgSubmitted[1] # pgSubmitted[2]
    /\ pgLoading /\ Len(pgFlights) = 1 /\ pgFlights[1].at = "json"
    /\ pgFlights[1].response[1].kind = "ok"
    /\ pgReleases = <<>> /\ pgSelected = <<>>
    /\ pgExpanded

\* C25: at most one call of handleRepoSubmit waits for its answer; while one
\* does the page is loading and the Fetch Releases button is disabled; the call
\* that waits is the one of the last submission.
C25_OneInFlight ==
    /\ Len(pgFlights) <= 1
    /\ pgFlights # <<>> =>
          /\ pgLoading
          /\ ~FetchEnabled
          /\ pgFlights[1].id = Len(pgSubmitted)
    /\ pgLoading => pgFlights # <<>>

\* the RepoInput is shown again with a valid URL while the first submission
\* still waits
C25_Witness ==
    /\ Len(pgFlights) = 1 /\ pgLoading
    /\ pgExpanded /\ pgParsedRepo # <<>>
    /\ pgParsedRepo[1] # pgFlights[1].repo

----------------------------------------------------------------------------
(* The tag fallback and the order in which the commit-detail fetches end    *)

\* the releases fetchAllTags returns when tag i is dated date[i], without the
\* flag that processReleases recomputes
ReleasesDated(date) ==
    ReSorted([i \in DOMAIN converted |-> convertTagToRelease(Considered[i], date[i])])

Unflagged(s) == [k \in 1..Len(s) |-> Upstream(s[k])]

\* the dates the tags get when the fetches end in listing order: commit dates,
\* and for the fetches that give none clock readings that never decrease
InOrderDates ==
    { date \in [DOMAIN converted -> 0..(ClockStart + MaxTicks)] :
         /\ \A i \in DOMAIN converted :
               IF NoCommitDate(i) THEN date[i] >= ClockStart ELSE date[i] = CommitDate(i)
         /\ \A i, j \in DOMAIN converted :
               (i < j /\ NoCommitDate(i) /\ NoCommitDate(j)) => date[i] <= date[j] }

C27_TagsHaveNoNotes ==
    (Returned /\ Aggregation.usingTags) => ~Aggregation.hasReleaseNotes

\* a result of two tag releases, each with its placeholder body
C27_Witness ==
    /\ Returned /\ Aggregation.usingTags
    /\ Len(Aggregation.releases) = 2
    /\ \A k \in 1..2 :
          Aggregation.releases[k].body = SynthesizedBody(Aggregation.releases[k].tag_name)
    /\ ~Aggregation.hasReleaseNotes

----------------------------------------------------------------------------
(***************************************************************************)
(* pollRunCompletion (openai.ts).  Each await is a step boundary: the loop *)
(* test issues runs.retrieve, the retrieval resolves with a run or         *)
(* rejects, and the five-second timer fires.                               *)
(***************************************************************************)
maxAttempts == 60

\* the statuses a run can be retrieved with
RunStatuses ==
    {"queued", "in_progress", "requires_action", "cancelling", "incomplete",
     "completed", "failed", "cancelled", "expired"}

\* runStatus.last_error: absent, or an object with a message
LastErrors == {<<>>, <<[message |-> ""]>>, <<[message |-> "Rate limit exceeded"]>>}

RetrievedRuns == [status : RunStatuses, last_error : LastErrors]

\* the loop test with a defect: one turn too many
LoopCondition_Inclusive(n) == n <= maxAttempts

\* while (attempts < maxAttempts)
LoopCondition(n) == n < maxAttempts

\* ["failed", "cancelled", "expired"].includes(status)
IsFailureStatus(status) == status \in {"failed", "cancelled", "expired"}

\* `Assistant run ${status}: ${last_error?.message || "Unknown error"}`
RunErrorMessage(run) ==
    "Assistant run " \o run.status \o ": " \o
        (IF run.last_error = <<>> \/ run.last_error[1].message = ""
         THEN "Unknown error"
         ELSE run.last_error[1].message)

InitPoll ==
    /\ pollPc = "loop" /\ attempts = 0 /\ retrievals = 0
    /\ runStatus = <<>> /\ pollError = NoValue
    /\ RelParked /\ AnzParked
    /\ SelParked /\ PageParked
    /\ RangeParked
    /\ AggParked
    /\ LibParked

\* the while test: enter the body and call runs.retrieve, or leave the loop
\* and throw
LoopTest ==
    /\ pollPc = "loop"
    /\ IF LoopCondition(attempts)
       THEN /\ pollPc' = "retrieve"
            /\ retrievals' = retrievals + 1
            /\ UNCHANGED pollError
       ELSE /\ pollPc' = "thrown"
            /\ pollError' = "Assistant run timed out"
            /\ UNCHANGED retrievals
    /\ UNCHANGED <<attempts, runStatus, rangeVars, aggVars, libVars, selVars, pageVars, relVars, anzVars>>

\* runs.retrieve resolves with a run
RetrieveResolves(run) ==
    /\ pollPc = "retrieve"
    /\ runStatus' = <<run>>
    /\ IF run.status = "completed"
       THEN pollPc' = "returned" /\ UNCHANGED pollError
       ELSE IF IsFailureStatus(run.status)
       THEN pollPc' = "thrown" /\ pollError' = RunErrorMessage(run)
       ELSE pollPc' = "sleep" /\ UNCHANGED pollError
    /\ UNCHANGED <<attempts, retrievals, rangeVars, aggVars, libVars, selVars, pageVars, relVars, anzVars>>

\* runs.retrieve rejects: the await throws out of the function
RetrieveRejects ==
    /\ pollPc = "retrieve"
    /\ pollPc' = "thrown"
    /\ pollError' = "Connection error."
    /\ UNCHANGED <<attempts, retrievals, runStatus, rangeVars, aggVars, libVars,
                   selVars, pageVars, relVars, anzVars>>

\* the timer of setTimeout(resolve, 5000) fires; attempts++
TimerFires ==
    /\ pollPc = "sleep"
    /\ attempts' = attempts + 1
    /\ pollPc' = "loop"
    /\ UNCHANGED <<retrievals, runStatus, pollError, rangeVars, aggVars, libVars,
                   selVars, pageVars, relVars, anzVars>>

NextPoll ==
    \/ LoopTest
    \/ \E run \in RetrievedRuns : RetrieveResolves(run)
    \/ RetrieveRejects
    \/ TimerFires

SpecPoll == InitPoll /\ [][NextPoll]_vars

\* every retrieval settles and every timer fires
SpecPollFair == SpecPoll /\ WF_vars(NextPoll)

PollEnded == pollPc \in {"returned", "thrown"}

\* the run last retrieved, when there is one
Retrieved == runStatus[1]

\* every status retrieved before the last one let the loop go on: each of them
\* was followed by one attempts++
EarlierAllPending == retrievals = attempts + 1

PollSafe ==
    /\ retrievals <= 60
    /\ pollPc = "returned" =>
          /\ runStatus # <<>> /\ Retrieved.status = "completed"
          /\ EarlierAllPending
    /\ (runStatus # <<>> /\ Retrieved.status = "completed") => pollPc = "returned"
    /\ (runStatus # <<>> /\ IsFailureStatus(Retrieved.status)) =>
          /\ pollPc = "thrown"
          /\ pollError = RunErrorMessage(Retrieved)
          /\ EarlierAllPending
    /\ pollError = "Assistant run timed out" =>
          /\ pollPc = "thrown"
          /\ attempts = 60 /\ retrievals = 60
          /\ ~IsFailureStatus(Retrieved.status) /\ Retrieved.status # "completed"
    /\ (pollPc = "loop" /\ attempts = 60) => retrievals = 60

\* C28: pollRunCompletion ends, after at most 60 retrievals: it returns at
\* the first status completed, throws at the first status failed, cancelled
\* or expired, and throws "Assistant run timed out" once 60 statuses in a row
\* were none of these.
C28_PollTerminates == []PollSafe /\ <>PollEnded

\* the 60th retrieval gave a status that is none of the four, and the call
\* threw the timeout
C28_Witness ==
    /\ pollPc = "thrown" /\ pollError = "Assistant run timed out"
    /\ retrievals = 60 /\ Retrieved.status = "in_progress"

----------------------------------------------------------------------------
(***************************************************************************)
(* GET /api/releases (the route handler).  fetchAllReleases is taken by    *)
(* its outcome: the result it returns, or the error it throws on the first *)
(* listing response that is not ok or on a rejected fetch.                 *)
(***************************************************************************)
\* searchParams.get: null, the empty string, or a name
OwnerParams == {<<>>, <<"">>, <<"facebook">>, <<"vercel">>}
RepoParams == {<<>>, <<"">>, <<"react">>, <<"next.js">>}

\* !value, for the value of a search parameter
Missing(param) == param = <<>> \/ param[1] = ""

\* the reason phrases an upstream response of a status comes with: the
\* standard one, none (HTTP/2), and the one the forge sends with its 403s
ReasonPhrases(status) ==
    {StatusText(status), ""} \cup (IF status = 403 THEN {"rate limit exceeded"} ELSE {})

\* the listing responses on which fetchAllReleases or fetchAllTags throws
RouteFailures ==
    UNION { { [rejected |-> FALSE, status |-> st, statusText |-> tx, remaining |-> rem] :
                 tx \in ReasonPhrases(st), rem \in RemainingValues } :
            st \in {x \in Statuses : ~Ok(x)} }
    \cup { [rejected |-> TRUE, status |-> 0, statusText |-> "", remaining |-> NoValue] }

\* the message of the error fetchAllReleases throws on such a response
ThrownMessage(resp, owner, repo) ==
    IF resp.rejected THEN FetchFailed ELSE ReleasesFailure(resp, owner, repo)

\* the catch block's status for an Error with this message
ErrorStatus(message) ==
    IF Includes(message, "not found") THEN 404
    ELSE IF Includes(message, "rate limit") THEN 429
    ELSE 500

InitReleasesRoute ==
    /\ relQuery \in [owner : OwnerParams, repo : RepoParams]
    /\ relPc = "received" /\ relCalls = 0
    /\ relThrown = <<>> /\ relResponse = <<>>
    /\ PollParked /\ AnzParked
    /\ SelParked /\ PageParked
    /\ RangeParked
    /\ AggParked
    /\ LibParked

\* the parameter test: answer 400, or call fetchAllReleases
GetValidates ==
    /\ relPc = "received"
    /\ IF Missing(relQuery.owner) \/ Missing(relQuery.repo)
       THEN /\ relResponse' = <<[status |-> 400,
                                 body |-> [error |-> "Both owner and repo are required"]]>>
            /\ relPc' = "responded"
            /\ UNCHANGED relCalls
       ELSE /\ relCalls' = relCalls + 1
            /\ relPc' = "aggregating"
            /\ UNCHANGED relResponse
    /\ UNCHANGED <<relQuery, relThrown, rangeVars, aggVars, libVars, selVars, pageVars, pollVars, anzVars>>

\* what fetchAllReleases returns for a repository with releases, and for one
\* with neither releases nor tags
RouteResult(repo, withReleases) ==
    IF withReleases
    THEN processReleases(CHOOSE rs \in ServedReleases(repo) : rs # <<>>, FALSE)
    ELSE EmptyTagsResult

\* fetchAllReleases resolves: NextResponse.json(releases)
AggregationReturns(withReleases) ==
    /\ relPc = "aggregating"
    /\ relResponse' =
          <<[status |-> 200,
             body |-> RouteResult([owner |-> relQuery.owner[1], repo |-> relQuery.repo[1]],
                                  withReleases)]>>
    /\ relPc' = "responded"
    /\ UNCHANGED <<relQuery, relCalls, relThrown, rangeVars, aggVars, libVars, selVars,
                   pageVars, pollVars, anzVars>>

\* fetchAllReleases throws on an upstream response; the catch block answers
AggregationThrows(resp) ==
    /\ relPc = "aggregating"
    /\ LET message == ThrownMessage(resp, relQuery.owner[1], relQuery.repo[1])
       IN  /\ relThrown' = <<[response |-> resp, message |-> message]>>
           /\ relResponse' = <<[status |-> ErrorStatus(message),
                                body |-> [error |-> message]]>>
    /\ relPc' = "responded"
    /\ UNCHANGED <<relQuery, relCalls, rangeVars, aggVars, libVars, selVars, pageVars, pollVars, anzVars>>

NextReleasesRoute ==
    \/ GetValidates
    \/ \E withReleases \in BOOLEAN : AggregationReturns(withReleases)
    \/ \E resp \in RouteFailures : AggregationThrows(resp)

SpecReleasesRoute == InitReleasesRoute /\ [][NextReleasesRoute]_vars

\* the failure classes of the listing client, by the response
IsRepoNotFound(resp) == ~resp.rejected /\ resp.status = 404
IsRateLimited(resp) == ~resp.rejected /\ resp.status = 403 /\ resp.remaining = "0"
IsUpstreamError(resp) ==
    ~resp.rejected /\ ~Ok(resp.status) /\ ~IsRepoNotFound(resp) /\ ~IsRateLimited(resp)

Answer == relResponse[1]
Thrown == relThrown[1]

\* C29: GET /api/releases answers 400 and starts no aggregation when owner
\* or repo is missing; a failed aggregation is answered 404 for
\* RepoNotFound, 429 for RateLimited and 500 for UpstreamError, with the
\* error's message in the body.
C29_OneStatusPerFailure ==
    relPc = "responded" =>
        /\ (Missing(relQuery.owner) \/ Missing(relQuery.repo)) =>
              Answer.status = 400 /\ relCalls = 0
        /\ relThrown # <<>> =>
              /\ Answer.body = [error |-> Thrown.message]
              /\ IsRepoNotFound(Thrown.response) => Answer.status = 404
              /\ IsRateLimited(Thrown.response) => Answer.status = 429
              /\ IsUpstreamError(Thrown.response) => Answer.status = 500

----------------------------------------------------------------------------
(***************************************************************************)
(* POST /api/analyze (route.ts) with analyzeBreakingChanges (openai.ts).   *)
(* The body is what request.json() gives: the four fields are JSON values  *)
(* or undefined, whatever the declared type of the request says.  The run  *)
(* of the assistant after the thread was created is taken by its outcome.  *)
(***************************************************************************)
\* a JSON value, or undefined: its type, its text when a string, its number
\* of elements or members when an array or an object
Json(type, text, size) == [type |-> type, text |-> text, size |-> size]
Undefined == Json("undefined", "", 0)
Null == Json("null", "", 0)

ChangelogValues == {Undefined, Null, Json("string", "", 0), Json("string", "## v2.0.0\n\nNotes", 0)}
ContextValues == {Undefined, Null, Json("array", "", 0), Json("array", "", 2), Json("object", "", 0)}
InfoValues == {Undefined, Null, Json("object", "", 2)}

\* ToBoolean of such a value
Truthy(v) == v.type \notin {"undefined", "null"} /\ ~(v.type = "string" /\ v.text = "")

\* the value's length property: <<n>>, or <<>> when it has none
LengthOf(v) ==
    CASE v.type = "array" -> <<v.size>>
      [] v.type = "string" -> <<Len(v.text)>>
      [] OTHER -> <<>>

\* the route's two validations
MissingInfo(body) == ~Truthy(body.repoInfo) \/ ~Truthy(body.versionInfo)
MissingData(body) ==
    ~Truthy(body.changelogs)
    /\ (~Truthy(body.releaseContext) \/ LengthOf(body.releaseContext) = <<0>>)

\* analyzeBreakingChanges: which prompt is built, or none
UsesContext(body) ==
    /\ Truthy(body.releaseContext)
    /\ LengthOf(body.releaseContext) # <<>> /\ LengthOf(body.releaseContext)[1] > 0
UsesChangelogs(body) == ~UsesContext(body) /\ Truthy(body.changelogs)

\* messages of errors the OpenAI client rejects with
ServiceErrors == {"Connection error.", "You exceeded your current quota"}

\* the catch block's status for an Error with this message
AnalyzeErrorStatus(message) ==
    IF Includes(message, "API key") THEN 401
    ELSE IF Includes(message, "rate limit") \/ Includes(message, "quota") THEN 429
    ELSE IF Includes(message, "No release data provided") THEN 400
    ELSE 500

ErrorResponse(status, message) == <<[status |-> status, body |-> [error |-> message]]>>

InitAnalyze ==
    /\ anzBody \in [changelogs : ChangelogValues, releaseContext : ContextValues,
                    repoInfo : InfoValues, versionInfo : InfoValues]
    /\ anzKey \in BOOLEAN
    /\ anzPc = "received" /\ anzLlmCalls = 0 /\ anzResponse = <<>>
    /\ PollParked /\ RelParked
    /\ SelParked /\ PageParked
    /\ RangeParked
    /\ AggParked
    /\ LibParked

\* the route's validations; then analyzeBreakingChanges up to its first
\* await: getOpenAIClient, and getOrCreateAssistant's request to the service
PostValidates ==
    /\ anzPc = "received"
    /\ IF MissingInfo(anzBody)
       THEN /\ anzResponse' = ErrorResponse(400,
                 "Missing required fields: repoInfo and versionInfo are required")
            /\ anzPc' = "responded"
            /\ UNCHANGED anzLlmCalls
       ELSE IF MissingData(anzBody)
       THEN /\ anzResponse' = ErrorResponse(400,
                 "Missing release data: either changelogs or releaseContext must be provided")
            /\ anzPc' = "responded"
            /\ UNCHANGED anzLlmCalls
       ELSE IF ~anzKey
       THEN /\ anzResponse' = ErrorResponse(AnalyzeErrorStatus("OpenAI API key is not configured"),
                                            "OpenAI API key is not configured")
            /\ anzPc' = "responded"
            /\ UNCHANGED anzLlmCalls
       ELSE /\ anzLlmCalls' = anzLlmCalls + 1
            /\ anzPc' = "assistant"
            /\ UNCHANGED anzResponse
    /\ UNCHANGED <<anzBody, anzKey, rangeVars, aggVars, libVars, selVars, pageVars,
                   pollVars, relVars>>

\* getOrCreateAssistant rejects: the catch block answers
AssistantFails(message) ==
    /\ anzPc = "assistant"
    /\ anzResponse' = ErrorResponse(AnalyzeErrorStatus(message), message)
    /\ anzPc' = "responded"
    /\ UNCHANGED <<anzBody, anzKey, anzLlmCalls, rangeVars, aggVars, libVars, selVars,
                   pageVars, pollVars, relVars>>

\* getOrCreateAssistant resolves: the prompt is chosen and threads.create is
\* called, or there is no data and the function throws
AssistantReady ==
    /\ anzPc = "assistant"
    /\ IF UsesContext(anzBody) \/ UsesChangelogs(anzBody)
       THEN /\ anzLlmCalls' = anzLlmCalls + 1
            /\ anzPc' = "running"
            /\ UNCHANGED anzResponse
       ELSE /\ anzResponse' =
                  ErrorResponse(AnalyzeErrorStatus("No release data provided for analysis"),
                                "No release data provided for analysis")
            /\ anzPc' = "responded"
            /\ UNCHANGED anzLlmCalls
    /\ UNCHANGED <<anzBody, anzKey, rangeVars, aggVars, libVars, selVars, pageVars,
                   pollVars, relVars>>

\* the thread, the run, the polling and the message listing end with the
\* assistant's text
AnalysisReturns ==
    /\ anzPc = "running"
    /\ anzResponse' = <<[status |-> 200, body |-> [result |-> "# Tech-debt specification"]]>>
    /\ anzPc' = "responded"
    /\ UNCHANGED <<anzBody, anzKey, anzLlmCalls, rangeVars, aggVars, libVars, selVars,
                   pageVars, pollVars, relVars>>

\* ... or with an error thrown
AnalysisThrows(message) ==
    /\ anzPc = "running"
    /\ anzResponse' = ErrorResponse(AnalyzeErrorStatus(message), message)
    /\ anzPc' = "responded"
    /\ UNCHANGED <<anzBody, anzKey, anzLlmCalls, rangeVars, aggVars, libVars, selVars,
                   pageVars, pollVars, relVars>>

NextAnalyze ==
    \/ PostValidates
    \/ \E message \in ServiceErrors : AssistantFails(message)
    \/ AssistantReady
    \/ AnalysisReturns
    \/ \E message \in ServiceErrors \cup {"Assistant run timed out"} : AnalysisThrows(message)

SpecAnalyze == InitAnalyze /\ [][NextAnalyze]_vars

\* the request supplies a changelog text that is not empty / a structured
\* release context that is not empty
HasChangelogText(body) == body.changelogs.type = "string" /\ body.changelogs.text # ""
HasReleaseContext(body) == body.releaseContext.type = "array" /\ body.releaseContext.size > 0
LacksInfo(body) ==
    body.repoInfo.type \in {"undefined", "null"} \/ body.versionInfo.type \in {"undefined", "null"}

\* C30: POST /api/analyze answers 400 and sends nothing to the OpenAI
\* service when the request has neither a changelog text that is not empty
\* nor a release context that is not empty, or lacks repoInfo or versionInfo.
C30_RejectedBeforeService ==
    (anzPc # "off" /\ (LacksInfo(anzBody)
                       \/ (~HasChangelogText(anzBody) /\ ~HasReleaseContext(anzBody)))) =>
        /\ anzLlmCalls = 0
        /\ anzPc = "responded" => anzResponse[1].status = 400

====
